---------------------------- MODULE Spec2Model ----------------------------
(***************************************************************************)
(* KifDiff: tokenizer, recursive-descent parser, dispatcher and directive  *)
(* handlers, modelled as a state machine over a small filesystem.          *)
(*                                                                         *)
(* Text (documents, paths, file contents) is a sequence of one-character   *)
(* strings, so that the tokenizer and the replacement engine work on it    *)
(* character by character as the Python code does.  Positions are 0-based  *)
(* as in the code; text[i+1] is the character at offset i.                 *)
(***************************************************************************)
EXTENDS Integers, Sequences, FiniteSets, TLC

(***************************************************************************)
(* Characters                                                              *)
(***************************************************************************)
None == ""

Upper == {"A","B","C","D","E","F","G","H","I","J","K","L","M",
          "N","O","P","Q","R","S","T","U","V","W","X","Y","Z"}

Lower == {"a","b","c","d","e","f","g","h","i","j","k","l","m",
          "n","o","p","q","r","s","t","u","v","w","x","y","z"}

Digit == {"0","1","2","3","4","5","6","7","8","9"}

IsAlpha(c) == c \in Upper \cup Lower

IsAlnum(c) == c \in Upper \cup Lower \cup Digit

Whitespace == {" ", "\t", "\r", "\n"}

Min(a, b) == IF a < b THEN a ELSE b

Max(a, b) == IF a > b THEN a ELSE b

\* text[a:b] of Python, 0-based, end exclusive, clamped
Slice(t, a, b) == SubSeq(t, Max(a, 0) + 1, Min(b, Len(t)))

\* str.startswith(prefix, i)
StartsWith(t, p, i) == /\ i + Len(p) <= Len(t)
                       /\ \A k \in 1..Len(p) : t[i + k] = p[k]

RECURSIVE LStrip(_)
LStrip(t) == IF t # <<>> /\ Head(t) \in Whitespace THEN LStrip(Tail(t)) ELSE t

RECURSIVE RStrip(_)
RStrip(t) == IF t # <<>> /\ t[Len(t)] \in Whitespace
             THEN RStrip(SubSeq(t, 1, Len(t) - 1)) ELSE t

\* str.strip()
Strip(t) == LStrip(RStrip(t))

(***************************************************************************)
(* Lexer (KifDiff/core/lexer.py).  The lexer state L is a record           *)
(*   text, pos, line, column, tokens, error                                *)
(* error is "" while lexing goes on and names the exception class once an  *)
(* exception has been raised.                                              *)
(***************************************************************************)
Token(type, value, line, column) ==
    [type |-> type, value |-> value, line |-> line, column |-> column]

Lexer(text) ==
    [text |-> text, pos |-> 0, line |-> 1, column |-> 1, tokens |-> <<>>,
     error |-> ""]

LexError(L, kind) == [L EXCEPT !.error = kind]

Peek(L, offset) ==
    IF L.pos + offset < Len(L.text) THEN L.text[L.pos + offset + 1] ELSE None

Advance(L) ==
    IF L.pos >= Len(L.text) THEN L
    ELSE IF L.text[L.pos + 1] = "\n"
         THEN [L EXCEPT !.pos = @ + 1, !.line = @ + 1, !.column = 1]
         ELSE [L EXCEPT !.pos = @ + 1, !.column = @ + 1]

Emit(L, tok) == [L EXCEPT !.tokens = Append(@, tok)]

RECURSIVE SkipWhitespace(_)
SkipWhitespace(L) ==
    IF Peek(L, 0) \in {" ", "\t", "\r"} THEN SkipWhitespace(Advance(L)) ELSE L

\* The read_* helpers return the lexer state after the read; the text read is
\* the slice of the input between the two positions.
RECURSIVE SkipUntilNewline(_)
SkipUntilNewline(L) ==
    IF Peek(L, 0) # None /\ Peek(L, 0) # "\n"
    THEN SkipUntilNewline(Advance(L)) ELSE L

RECURSIVE SkipDirectiveName(_)
SkipDirectiveName(L) ==
    IF Peek(L, 0) \in Upper \cup {"_"} THEN SkipDirectiveName(Advance(L)) ELSE L

RECURSIVE SkipIdentifier(_)
SkipIdentifier(L) ==
    IF IsAlnum(Peek(L, 0)) \/ Peek(L, 0) = "_"
    THEN SkipIdentifier(Advance(L)) ELSE L

RECURSIVE SkipNumber(_)
SkipNumber(L) ==
    IF Peek(L, 0) \in Digit THEN SkipNumber(Advance(L)) ELSE L

Between(L1, L2) == Slice(L1.text, L1.pos, L2.pos)

EscapeMap(c, quote) ==
    CASE c = "n" -> "\n"
      [] c = "t" -> "\t"
      [] c = "r" -> "\r"
      [] OTHER -> c

\* read_string: returns [L |-> state after the closing quote, value |-> text]
RECURSIVE ReadStringBody(_, _, _)
ReadStringBody(L, quote, acc) ==
    LET c == Peek(L, 0) IN
    IF c = None THEN [L |-> L, value |-> acc]
    ELSE IF c = quote THEN [L |-> Advance(L), value |-> acc]
    ELSE IF c = "\\"
         THEN LET L1 == Advance(L)
                  n  == Peek(L1, 0)
              IN  IF n = None THEN ReadStringBody(L1, quote, acc)
                  ELSE ReadStringBody(Advance(L1), quote,
                                      Append(acc, EscapeMap(n, quote)))
    ELSE ReadStringBody(Advance(L), quote, Append(acc, c))

ReadString(L, quote) == ReadStringBody(Advance(L), quote, <<>>)


\* The directive names, as the text the lexer reads
W_CREATE == <<"C","R","E","A","T","E">>

W_DELETE == <<"D","E","L","E","T","E">>

W_MOVE == <<"M","O","V","E">>

W_READ == <<"R","E","A","D">>

W_TREE == <<"T","R","E","E">>

W_SEARCH_AND_REPLACE ==
    <<"S","E","A","R","C","H","_","A","N",
      "D","_","R","E","P","L","A","C","E">>

W_OVERWRITE_FILE ==
    <<"O","V","E","R","W","R","I",
      "T","E","_","F","I","L","E">>

W_FIND == <<"F","I","N","D">>

W_BEFORE == <<"B","E","F","O","R","E">>

W_END_BEFORE == <<"E","N","D","_","B","E","F","O","R","E">>

W_AFTER == <<"A","F","T","E","R">>

W_END_AFTER == <<"E","N","D","_","A","F","T","E","R">>

W_END_CREATE == <<"E","N","D","_","C","R","E","A","T","E">>

W_END_OVERWRITE_FILE ==
    <<"E","N","D","_","O","V","E","R","W",
      "R","I","T","E","_","F","I","L","E">>

W_END_SEARCH_AND_REPLACE ==
    <<"E","N","D","_","S","E","A","R","C","H","_",
      "A","N","D","_","R","E","P","L","A","C","E">>

\* directive_map of tokenize_directive_line (lexer.py 174-190): the token
\* type of a directive name, None for a name outside the map
DirectiveMap(name) ==
    CASE name = W_CREATE -> "CREATE"
      [] name = W_DELETE -> "DELETE"
      [] name = W_MOVE -> "MOVE"
      [] name = W_READ -> "READ"
      [] name = W_TREE -> "TREE"
      [] name = W_SEARCH_AND_REPLACE -> "SEARCH_AND_REPLACE"
      [] name = W_OVERWRITE_FILE -> "OVERWRITE_FILE"
      [] name = W_FIND -> "FIND"
      [] name = W_BEFORE -> "BEFORE"
      [] name = W_END_BEFORE -> "END_BEFORE"
      [] name = W_AFTER -> "AFTER"
      [] name = W_END_AFTER -> "END_AFTER"
      [] name = W_END_CREATE -> "END_CREATE"
      [] name = W_END_OVERWRITE_FILE -> "END_OVERWRITE_FILE"
      [] name = W_END_SEARCH_AND_REPLACE -> "END_SEARCH_AND_REPLACE"
      [] OTHER -> None

ContentStarters == {W_CREATE, W_OVERWRITE_FILE, W_SEARCH_AND_REPLACE}

EndMarkers == {W_END_BEFORE, W_END_AFTER, W_END_CREATE, W_END_OVERWRITE_FILE,
               W_END_SEARCH_AND_REPLACE}

BlockStarters == {W_BEFORE, W_AFTER}

\* Sequencing: Bind(e, LAMBDA x : body) is body with x bound to the value of
\* e, the assignment x = e followed by the statements of body
Bind(value, Body(_)) == Body(value)

\* One parameter value after '=' (lexer.py 234-246)
TokenizeParamValue(L) ==
    LET c == Peek(L, 0) IN
    IF c = None THEN LexError(L, "TypeError")   \* None in '"\'' raises
    ELSE IF c \in {"\"", "'"}
         THEN Bind(ReadString(L, c), LAMBDA r :
              Emit(r.L, Token("STRING", r.value, r.L.line,
                              r.L.column - Len(r.value))))
    ELSE IF c \in Digit
         THEN Bind(SkipNumber(L), LAMBDA L1 :
              Emit(L1, Token("NUMBER", Between(L, L1), L1.line,
                             L1.column - (L1.pos - L.pos))))
    ELSE IF IsAlpha(c)
         THEN Bind(SkipIdentifier(L), LAMBDA L1 :
              Emit(L1, Token("IDENTIFIER", Between(L, L1), L1.line,
                             L1.column - (L1.pos - L.pos))))
    ELSE LexError(L, "SyntaxError")

SkipComma(L) ==
    IF Peek(L, 0) = ","
    THEN Bind(Advance(L), LAMBDA L1 :
         SkipWhitespace(Emit(L1, Token("COMMA", <<",">>, L1.line,
                                       L1.column - 1))))
    ELSE L

\* "Expect '='" and the value after it (lexer.py 228-246)
TokenizeParamAssignment(L) ==
    IF Peek(L, 0) = "="
    THEN Bind(Advance(L), LAMBDA La :
         TokenizeParamValue(SkipWhitespace(
             Emit(La, Token("EQUALS", <<"=">>, La.line, La.column - 1)))))
    ELSE L

\* The while loop of tokenize_parameters (lexer.py 219-256)
RECURSIVE TokenizeParamLoop(_)
TokenizeParamLoop(L) ==
    LET c == Peek(L, 0) IN
    IF L.error # "" \/ c = None \/ c = ")" THEN L
    ELSE IF ~(IsAlpha(c) \/ c = "_") THEN L
    ELSE Bind(SkipIdentifier(L), LAMBDA L1 :
         Bind(TokenizeParamAssignment(SkipWhitespace(
                  Emit(L1, Token("IDENTIFIER", Between(L, L1), L1.line,
                                 L1.column - (L1.pos - L.pos))))), LAMBDA L3 :
         IF L3.error # "" THEN L3
         ELSE TokenizeParamLoop(SkipComma(SkipWhitespace(L3)))))

TokenizeParameters(L) ==
    Bind(Advance(L), LAMBDA L1 :
    Bind(TokenizeParamLoop(SkipWhitespace(
             Emit(L1, Token("LPAREN", <<"(">>, L1.line, L1.column - 1)))),
         LAMBDA L2 :
    IF L2.error # "" THEN L2
    ELSE IF Peek(L2, 0) = ")"
         THEN Bind(Advance(L2), LAMBDA L3 :
              Emit(L3, Token("RPAREN", <<")">>, L3.line, L3.column - 1)))
         ELSE LexError(L2, "SyntaxError")))

TokenizeDirectiveLine(L, directive_name) ==
    Bind(DirectiveMap(directive_name), LAMBDA token_type :
    IF token_type = None THEN LexError(L, "SyntaxError")
    ELSE
    Bind(SkipWhitespace(Emit(L, Token(token_type, directive_name,
                                      L.line, L.column))), LAMBDA L1 :
    Bind(IF Peek(L1, 0) = "(" THEN TokenizeParameters(L1) ELSE L1, LAMBDA L2 :
    IF L2.error # "" THEN L2
    ELSE
    Bind(SkipWhitespace(L2), LAMBDA L3 :
    Bind(SkipUntilNewline(L3), LAMBDA L4 :
    Bind(Strip(Between(L3, L4)), LAMBDA remaining :
    IF remaining # <<>>
    THEN Emit(L4, Token("PATH", remaining, L4.line, L4.column))
    ELSE L4))))))

Sentinel == <<"@", "K", "i", "f">>

AtSentinel(L) == /\ Peek(L, 0) = "@" /\ Peek(L, 1) = "K"
                 /\ Peek(L, 2) = "i" /\ Peek(L, 3) = "f"

Advance4(L) == Advance(Advance(Advance(Advance(L))))

\* The name the lookahead of content mode reads (lexer.py 295-298); the
\* caller keeps its own state, which is the restore of lines 301-303
PeekDirective(L) ==
    Bind(SkipWhitespace(Advance4(L)), LAMBDA L1 :
         Between(L1, SkipDirectiveName(L1)))

FlushContent(L) ==
    IF L.content_buffer # <<>>
    THEN [Emit(L, Token("CONTENT", L.content_buffer, L.content_start_line,
                        L.content_start_col))
            EXCEPT !.content_buffer = <<>>, !.in_content_block = FALSE]
    ELSE L

BufferChar(L) ==
    [Advance(L) EXCEPT !.content_buffer = Append(@, Peek(L, 0))]

\* in_content_block after the directive line (lexer.py 345-360)
ContentModeAfter(L, directive_name) ==
    IF directive_name \in ContentStarters \cup BlockStarters
    THEN [L EXCEPT !.in_content_block = TRUE,
                   !.content_start_line = L.line,
                   !.content_start_col = L.column]
    ELSE IF directive_name \in EndMarkers
         THEN [L EXCEPT !.in_content_block = FALSE]
         ELSE L

NewlineAfter(L) ==
    IF Peek(L, 0) = "\n"
    THEN Advance(Emit(L, Token("NEWLINE", <<"\\", "n">>, L.line, L.column)))
    ELSE L

\* lexer.py 322-365: the directive at the cursor
TokenizeDirective(L) ==
    Bind(SkipWhitespace(Emit(Advance4(L), Token("DIRECTIVE_START", Sentinel,
                                                L.line, L.column))),
         LAMBDA L1 :
    Bind(SkipDirectiveName(L1), LAMBDA L2 :
    Bind(Between(L1, L2), LAMBDA directive_name :
    IF directive_name = <<>> THEN LexError(L2, "SyntaxError")
    ELSE
    Bind(TokenizeDirectiveLine(L2, directive_name), LAMBDA L3 :
    IF L3.error # "" THEN L3
    ELSE NewlineAfter(ContentModeAfter(L3, directive_name))))))

\* An iteration that takes every sentinel for the start of a directive,
\* inside a content block too
TokenizeStepEager(L) ==
    IF ~L.in_content_block /\ Peek(L, 0) = "#" THEN SkipUntilNewline(L)
    ELSE IF AtSentinel(L)
         THEN TokenizeDirective(IF L.in_content_block
                                THEN FlushContent(L) ELSE L)
    ELSE IF L.in_content_block THEN BufferChar(L)
    ELSE Advance(L)

\* One iteration of the while loop of tokenize (lexer.py 279-378)
TokenizeStep(L) ==
    IF ~L.in_content_block /\ Peek(L, 0) = "#" THEN SkipUntilNewline(L)
    ELSE IF AtSentinel(L)
         THEN IF L.in_content_block
                 /\ PeekDirective(L) \notin EndMarkers \cup BlockStarters
              THEN BufferChar(L)
              ELSE TokenizeDirective(IF L.in_content_block
                                     THEN FlushContent(L) ELSE L)
    ELSE IF L.in_content_block THEN BufferChar(L)
    ELSE Advance(L)

RECURSIVE TokenizeLoop(_)
TokenizeLoop(L) ==
    IF L.error # "" \/ L.pos >= Len(L.text) THEN L
    ELSE TokenizeLoop(TokenizeStep(L))

\* "Save any remaining content", "Add EOF token" (lexer.py 380-388)
TokenizeEnd(L) ==
    IF L.error # "" THEN [error |-> L.error, tokens |-> <<>>]
    ELSE [error |-> "",
          tokens |-> (IF L.content_buffer # <<>>
                      THEN Append(L.tokens,
                                  Token("CONTENT", L.content_buffer,
                                        L.content_start_line,
                                        L.content_start_col))
                      ELSE L.tokens)
                     \o <<Token("EOF", <<>>, L.line, L.column)>>]

\* Lexer.tokenize: [error, tokens]
Tokenize(text) ==
    TokenizeEnd(TokenizeLoop(
        Lexer(text) @@ [in_content_block |-> FALSE, content_buffer |-> <<>>,
                        content_start_line |-> 0, content_start_col |-> 0]))

(***************************************************************************)
(* Parser (KifDiff/core/parser.py).  The parser state P is a record        *)
(* tokens, pos, error; a parse function returns [P, v]: the state after it *)
(* and the value it built.                                                 *)
(***************************************************************************)
Parser(tokens) == [tokens |-> tokens, pos |-> 0, error |-> ""]

ParseError(P) == [P EXCEPT !.error = "SyntaxError"]

current_token(P) ==
    IF P.pos < Len(P.tokens) THEN P.tokens[P.pos + 1]
    ELSE P.tokens[Len(P.tokens)]

peek(P, offset) ==
    IF P.pos + offset < Len(P.tokens) THEN P.tokens[P.pos + offset + 1]
    ELSE P.tokens[Len(P.tokens)]

advance(P) ==
    IF P.pos < Len(P.tokens) - 1 THEN [P EXCEPT !.pos = @ + 1] ELSE P

expect(P, token_type) ==
    IF P.error # "" THEN P
    ELSE IF current_token(P).type # token_type THEN ParseError(P)
    ELSE advance(P)

RECURSIVE skip_newlines(_)
skip_newlines(P) ==
    IF P.error = "" /\ current_token(P).type = "NEWLINE"
    THEN skip_newlines(advance(P)) ELSE P

\* int() of a NUMBER token
DigitValue(c) ==
    CASE c = "0" -> 0 [] c = "1" -> 1 [] c = "2" -> 2 [] c = "3" -> 3
      [] c = "4" -> 4 [] c = "5" -> 5 [] c = "6" -> 6 [] c = "7" -> 7
      [] c = "8" -> 8 [] c = "9" -> 9

RECURSIVE ToInt(_)
ToInt(ds) ==
    IF ds = <<>> THEN 0
    ELSE 10 * ToInt(SubSeq(ds, 1, Len(ds) - 1)) + DigitValue(ds[Len(ds)])

LowerOf(c) ==
    CASE c = "A" -> "a" [] c = "B" -> "b" [] c = "C" -> "c" [] c = "D" -> "d"
      [] c = "E" -> "e" [] c = "F" -> "f" [] c = "G" -> "g" [] c = "H" -> "h"
      [] c = "I" -> "i" [] c = "J" -> "j" [] c = "K" -> "k" [] c = "L" -> "l"
      [] c = "M" -> "m" [] c = "N" -> "n" [] c = "O" -> "o" [] c = "P" -> "p"
      [] c = "Q" -> "q" [] c = "R" -> "r" [] c = "S" -> "s" [] c = "T" -> "t"
      [] c = "U" -> "u" [] c = "V" -> "v" [] c = "W" -> "w" [] c = "X" -> "x"
      [] c = "Y" -> "y" [] c = "Z" -> "z" [] OTHER -> c

ToLower(t) == [i \in 1..Len(t) |-> LowerOf(t[i])]

\* Parameter values are tagged with their Python type
BoolV(b) == [t |-> "bool", v |-> b]

IntV(n) == [t |-> "int", v |-> n]

StrV(str) == [t |-> "str", v |-> str]

\* parser.py 76-92: the value after '='; [P, v]
parse_parameter_value(P) ==
    LET tok == current_token(P) IN
    IF tok.type = "STRING" THEN [P |-> advance(P), v |-> StrV(tok.value)]
    ELSE IF tok.type = "NUMBER"
         THEN [P |-> advance(P), v |-> IntV(ToInt(tok.value))]
    ELSE IF tok.type = "IDENTIFIER"
         THEN LET val_str == ToLower(tok.value)
              IN  [P |-> advance(P),
                   v |-> IF val_str = <<"t","r","u","e">> THEN BoolV(TRUE)
                         ELSE IF val_str = <<"f","a","l","s","e">>
                              THEN BoolV(FALSE)
                              ELSE StrV(val_str)]
    ELSE [P |-> ParseError(P), v |-> None]

SetParam(params, key, value) ==
    [k \in DOMAIN params \cup {key} |-> IF k = key THEN value ELSE params[k]]

\* The while loop of parse_parameters (parser.py 68-98)
RECURSIVE parse_parameter_loop(_, _)
parse_parameter_loop(P, params) ==
    IF P.error # "" \/ current_token(P).type = "RPAREN"
    THEN [P |-> P, v |-> params]
    ELSE Bind(expect(expect(P, "IDENTIFIER"), "EQUALS"), LAMBDA P1 :
         IF P1.error # "" THEN [P |-> P1, v |-> params]
         ELSE
         Bind(parse_parameter_value(P1), LAMBDA r :
         IF r.P.error # "" THEN [P |-> r.P, v |-> params]
         ELSE parse_parameter_loop(
                  IF current_token(r.P).type = "COMMA"
                  THEN advance(r.P) ELSE r.P,
                  SetParam(params, current_token(P).value, r.v))))

parse_parameters(P) ==
    Bind(parse_parameter_loop(expect(P, "LPAREN"), <<>>), LAMBDA r :
         [P |-> expect(r.P, "RPAREN"), v |-> r.v])

\* "Check for parameters" at the head of every parse_*_directive
optional_parameters(P) ==
    IF current_token(P).type = "LPAREN" THEN parse_parameters(P)
    ELSE [P |-> P, v |-> <<>>]

parse_path(P) ==
    IF P.error # "" THEN [P |-> P, v |-> <<>>]
    ELSE IF current_token(P).type = "PATH"
         THEN [P |-> advance(P), v |-> current_token(P).value]
         ELSE [P |-> ParseError(P), v |-> <<>>]

\* A loop that steps over a directive it meets in the body and goes on
RECURSIVE parse_content_skipping(_, _, _)
parse_content_skipping(P, end_token_type, content) ==
    LET token == current_token(P) IN
    IF token.type = end_token_type \/ token.type = "EOF"
    THEN [P |-> P, v |-> content]
    ELSE IF token.type = "CONTENT"
         THEN parse_content_skipping(advance(P), end_token_type,
                                     content \o token.value)
    ELSE IF token.type = "DIRECTIVE_START" /\ peek(P, 1).type = end_token_type
         THEN [P |-> P, v |-> content]
    ELSE parse_content_skipping(advance(P), end_token_type, content)

RECURSIVE parse_content_loop(_, _, _)
parse_content_loop(P, end_token_type, content) ==
    LET token == current_token(P) IN
    IF token.type = end_token_type \/ token.type = "EOF"
    THEN [P |-> P, v |-> content]
    ELSE IF token.type = "CONTENT"
         THEN parse_content_loop(advance(P), end_token_type,
                                 content \o token.value)
    ELSE IF token.type = "NEWLINE"
         THEN parse_content_loop(advance(P), end_token_type, content)
    ELSE IF token.type = "DIRECTIVE_START" /\ peek(P, 1).type = end_token_type
         THEN [P |-> P, v |-> content]
    ELSE [P |-> ParseError(P), v |-> content]

parse_content_until(P, end_token_type) ==
    IF P.error # "" THEN [P |-> P, v |-> <<>>]
    ELSE parse_content_loop(skip_newlines(P), end_token_type, <<>>)

\* "@Kif <marker>" followed by skip_newlines
expect_marker(P, marker) ==
    skip_newlines(expect(expect(P, "DIRECTIVE_START"), marker))

\* str.endswith('\n') and [:-1]
StripOneNewline(t) ==
    IF t # <<>> /\ t[Len(t)] = "\n" THEN SubSeq(t, 1, Len(t) - 1) ELSE t

BeforeAfterBlock(before, after) == [before |-> before, after |-> after]

parse_before_after_block(P) ==
    Bind(parse_content_until(expect_marker(P, "BEFORE"), "END_BEFORE"),
         LAMBDA b :
    Bind(parse_content_until(
             expect_marker(expect_marker(b.P, "END_BEFORE"), "AFTER"),
             "END_AFTER"), LAMBDA a :
    [P |-> expect_marker(a.P, "END_AFTER"),
     v |-> BeforeAfterBlock(StripOneNewline(b.v), StripOneNewline(a.v))]))

\* parse_create_directive / parse_overwrite_file_directive: a path and a body
parse_body_directive(P, kind, end_marker, line, column) ==
    Bind(optional_parameters(P), LAMBDA ps :
    Bind(parse_path(ps.P), LAMBDA pa :
    Bind(parse_content_until(skip_newlines(pa.P), end_marker), LAMBDA c :
    [P |-> expect_marker(c.P, end_marker),
     v |-> [kind |-> kind, line |-> line, column |-> column,
            params |-> ps.v, path |-> pa.v, content |-> c.v]])))

parse_create_directive(P, line, column) ==
    parse_body_directive(P, "Create", "END_CREATE", line, column)

parse_overwrite_file_directive(P, line, column) ==
    parse_body_directive(P, "OverwriteFile", "END_OVERWRITE_FILE", line, column)

\* parse_delete/read/tree/find_directive: a path alone
parse_path_directive(P, kind, line, column) ==
    Bind(optional_parameters(P), LAMBDA ps :
    Bind(parse_path(ps.P), LAMBDA pa :
    [P |-> skip_newlines(pa.P),
     v |-> [kind |-> kind, line |-> line, column |-> column,
            params |-> ps.v, path |-> pa.v]]))

parse_delete_directive(P, line, column) ==
    parse_path_directive(P, "Delete", line, column)

parse_read_directive(P, line, column) ==
    parse_path_directive(P, "Read", line, column)

parse_tree_directive(P, line, column) ==
    parse_path_directive(P, "Tree", line, column)

parse_find_directive(P, line, column) ==
    parse_path_directive(P, "Find", line, column)

\* str.split(None, 1) of a stripped string: the first word and the rest
RECURSIVE FirstSpace(_, _)
FirstSpace(t, i) ==
    IF i > Len(t) THEN 0
    ELSE IF t[i] \in Whitespace THEN i ELSE FirstSpace(t, i + 1)

SplitFirst(t) ==
    LET i == FirstSpace(t, 1) IN
    IF t = <<>> THEN <<>>
    ELSE IF i = 0 THEN <<t>>
    ELSE <<SubSeq(t, 1, i - 1), LStrip(SubSeq(t, i, Len(t)))>>

parse_move_directive(P, line, column) ==
    Bind(optional_parameters(P), LAMBDA ps :
    Bind(parse_path(ps.P), LAMBDA pa :
    IF pa.P.error # "" THEN [P |-> pa.P, v |-> None]
    ELSE
    Bind(SplitFirst(pa.v), LAMBDA parts :
    IF Len(parts) < 2 THEN [P |-> ParseError(pa.P), v |-> None]
    ELSE [P |-> skip_newlines(pa.P),
          v |-> [kind |-> "Move", line |-> line, column |-> column,
                 params |-> ps.v, source |-> parts[1], dest |-> parts[2]]])))

\* The while True loop of parse_search_and_replace_directive (parser.py 299-316)
RECURSIVE parse_blocks(_, _)
parse_blocks(P, blocks) ==
    LET token == current_token(P) IN
    IF P.error # "" THEN [P |-> P, v |-> blocks]
    ELSE IF token.type = "DIRECTIVE_START"
         THEN IF peek(P, 1).type = "END_SEARCH_AND_REPLACE"
              THEN [P |-> P, v |-> blocks]
              ELSE IF peek(P, 1).type = "BEFORE"
                   THEN Bind(parse_before_after_block(P), LAMBDA b :
                             parse_blocks(b.P, Append(blocks, b.v)))
                   ELSE [P |-> ParseError(P), v |-> blocks]
    ELSE IF token.type = "EOF" THEN [P |-> ParseError(P), v |-> blocks]
    ELSE parse_blocks(advance(P), blocks)

parse_search_and_replace_directive(P, line, column) ==
    Bind(optional_parameters(P), LAMBDA ps :
    Bind(parse_path(ps.P), LAMBDA pa :
    Bind(parse_blocks(skip_newlines(pa.P), <<>>), LAMBDA bs :
    [P |-> expect_marker(bs.P, "END_SEARCH_AND_REPLACE"),
     v |-> [kind |-> "SearchAndReplace", line |-> line, column |-> column,
            params |-> ps.v, path |-> pa.v, blocks |-> bs.v]])))

\* The dispatch of parse_directive on the token after "@Kif"; the lexer's
\* TokenType has no RUN member, so the comparison of line 388, reached by
\* every token type the earlier comparisons reject, raises AttributeError
parse_directive_of(ty, P2, line, column) ==
    CASE ty = "CREATE" -> parse_create_directive(P2, line, column)
      [] ty = "DELETE" -> parse_delete_directive(P2, line, column)
      [] ty = "MOVE" -> parse_move_directive(P2, line, column)
      [] ty = "READ" -> parse_read_directive(P2, line, column)
      [] ty = "TREE" -> parse_tree_directive(P2, line, column)
      [] ty = "OVERWRITE_FILE" ->
           parse_overwrite_file_directive(P2, line, column)
      [] ty = "SEARCH_AND_REPLACE" ->
           parse_search_and_replace_directive(P2, line, column)
      [] ty = "FIND" -> parse_find_directive(P2, line, column)
      [] OTHER -> [P |-> [P2 EXCEPT !.error = "AttributeError"], v |-> None]

\* parse_directive after the EOF test of its first lines
parse_directive(P) ==
    IF current_token(P).type # "DIRECTIVE_START"
    THEN [P |-> ParseError(P), v |-> None]
    ELSE parse_directive_of(current_token(advance(P)).type,
                            advance(advance(P)), current_token(P).line,
                            current_token(P).column)

\* A loop that puts each directive it has parsed in front of the earlier
\* ones: the Program in the reverse of document order
RECURSIVE parse_loop_prepending(_, _)
parse_loop_prepending(P, directives) ==
    IF current_token(P).type = "EOF" THEN [P |-> P, v |-> directives]
    ELSE Bind(parse_directive(P), LAMBDA d :
              IF d.P.error # "" THEN [P |-> d.P, v |-> directives]
              ELSE parse_loop_prepending(d.P, <<d.v>> \o directives))

\* The while loop of Parser.parse: directives are appended in token order
RECURSIVE parse_loop(_, _)
parse_loop(P, directives) ==
    IF current_token(P).type = "EOF" THEN [P |-> P, v |-> directives]
    ELSE Bind(parse_directive(P), LAMBDA d :
              IF d.P.error # "" THEN [P |-> d.P, v |-> directives]
              ELSE parse_loop(d.P, Append(directives, d.v)))

\* A parser that gives the directives it has built before the error as the
\* Program, instead of raising
ParseLenient(tokens) ==
    Bind(parse_loop(skip_newlines(Parser(tokens)), <<>>), LAMBDA r :
         [error |-> "", directives |-> r.v])

\* Parser.parse: [error, directives]; a raised error leaves no Program
Parse(tokens) ==
    Bind(parse_loop(skip_newlines(Parser(tokens)), <<>>), LAMBDA r :
         IF r.P.error # "" THEN [error |-> r.P.error, directives |-> <<>>]
         ELSE [error |-> "", directives |-> r.v])

(***************************************************************************)
(* Python string primitives used by the replacement engine                 *)
(***************************************************************************)
\* str.find(sub) from offset i: the first offset >= i where sub occurs, -1
RECURSIVE FindFrom(_, _, _)
FindFrom(t, sub, i) ==
    IF i + Len(sub) > Len(t) THEN -1
    ELSE IF StartsWith(t, sub, i) THEN i
    ELSE FindFrom(t, sub, i + 1)

Find(t, sub) == FindFrom(t, sub, 0)

\* sub in t
Contains(t, sub) == Find(t, sub) # -1

\* str.replace(old, new, maxcount) for a non-empty old; maxcount -1 is all
RECURSIVE ReplaceFrom(_, _, _, _)
ReplaceFrom(t, old, new, maxcount) ==
    LET j == Find(t, old) IN
    IF maxcount = 0 \/ j = -1 THEN t
    ELSE Slice(t, 0, j) \o new
         \o ReplaceFrom(Slice(t, j + Len(old), Len(t)), old, new, maxcount - 1)

\* str.replace('', new, maxcount): new goes before each character and at the
\* end, maxcount insertions at most
RECURSIVE Interleave(_, _, _)
Interleave(t, new, maxcount) ==
    IF maxcount = 0 THEN t
    ELSE IF t = <<>> THEN new
    ELSE new \o <<Head(t)>> \o Interleave(Tail(t), new, maxcount - 1)

Replace(t, old, new, maxcount) ==
    IF old = <<>> THEN Interleave(t, new, maxcount)
    ELSE ReplaceFrom(t, old, new, maxcount)

\* text.split('\n')
RECURSIVE SplitLines(_)
SplitLines(t) ==
    LET j == Find(t, <<"\n">>) IN
    IF j = -1 THEN <<t>>
    ELSE <<Slice(t, 0, j)>> \o SplitLines(Slice(t, j + 1, Len(t)))

\* '\n'.join(lines)
RECURSIVE JoinLines(_)
JoinLines(lines) ==
    IF Len(lines) = 1 THEN lines[1]
    ELSE lines[1] \o <<"\n">> \o JoinLines(Tail(lines))

(***************************************************************************)
(* Matching/replacement engine (KifDiff/core/directives/search_replace.py) *)
(***************************************************************************)
normalize_whitespace(text) ==
    LET lines == SplitLines(text)
    IN  JoinLines([i \in 1..Len(lines) |-> RStrip(lines[i])])

\* Truth value of a parameter value in "if v:"
Truthy(v) ==
    CASE v.t = "bool" -> v.v
      [] v.t = "int" -> v.v # 0
      [] v.t = "str" -> v.v # <<>>

\* params.get(key, default)
ParamGet(params, key, default) ==
    IF key \in DOMAIN params THEN params[key] ELSE default

\* Patterns of the regex mode.  The model covers patterns made of ordinary
\* characters, which match as the literal text does, and patterns with an
\* unbalanced parenthesis, which re.compile rejects.
InvalidPattern(pat) ==
    Cardinality({i \in 1..Len(pat) : pat[i] = "("})
        # Cardinality({i \in 1..Len(pat) : pat[i] = ")"})

\* The manual loop of lines 248-260: count replacements at most, each found
\* again from the start of what remains
RECURSIVE ReplaceManually(_, _, _, _)
ReplaceManually(remaining, before_text, after_text, count) ==
    IF count > 0 /\ Contains(remaining, before_text)
    THEN LET index == Find(remaining, before_text)
         IN  Slice(remaining, 0, index) \o after_text
             \o ReplaceManually(
                    Slice(remaining, index + Len(before_text), Len(remaining)),
                    before_text, after_text, count - 1)
    ELSE remaining

\* int value of a count parameter that is a number (True is 1, False is 0)
CountValue(count) == IF count.t = "bool" THEN (IF count.v THEN 1 ELSE 0)
                     ELSE count.v

\* A replacement whose replace_all branch replaces the first occurrence
\* only
ReplaceAllOnce(content, before_text, search_before, after_text, replace_all, count, use_regex) ==
    [exc |-> "",
     content |-> Replace(content, IF use_regex THEN search_before
                                  ELSE before_text, after_text, 1)]

\* "Perform replacement" (lines 226-263).  count is the tagged value of the
\* parameter; a string there makes the comparison or re.sub raise TypeError.
\* The pattern of regex mode is compiled from search_before.  [exc, content]
PerformReplacement(content, before_text, search_before, after_text, replace_all, count, use_regex) ==
    IF use_regex
    THEN IF replace_all
         THEN [exc |-> "",
               content |-> Replace(content, search_before, after_text, -1)]
         ELSE IF count.t = "str" THEN [exc |-> "TypeError", content |-> content]
         ELSE [exc |-> "",
               content |-> Replace(content, search_before, after_text,
                                   IF CountValue(count) = 0 THEN -1
                                   ELSE CountValue(count))]
    ELSE IF replace_all
         THEN [exc |-> "",
               content |-> Replace(content, before_text, after_text, -1)]
    ELSE IF count.t # "str" /\ CountValue(count) = 1
         THEN [exc |-> "",
               content |-> Replace(content, before_text, after_text, 1)]
    ELSE IF count.t = "str" THEN [exc |-> "TypeError", content |-> content]
    ELSE [exc |-> "",
          content |-> ReplaceManually(content, before_text, after_text,
                                      CountValue(count))]

\* What input() gives at a prompt: an answer, or EOFError at end of input
Answers == {"y", "n", "EOF"}

\* What _process_single_block gives: its return value, self._last_content
\* (the content it was given when it stores none), the exception it lets
\* through, whether it has prompted
BlockResult(success, content, exc, prompted) ==
    [success |-> success, content |-> content, exc |-> exc,
     prompted |-> prompted]

\* _process_single_block from "Perform replacement" on
ReplaceBlock(content, before_text, search_before, after_text, replace_all, count, use_regex, prompted) ==
    Bind(PerformReplacement(content, before_text, search_before, after_text,
                            replace_all, count, use_regex), LAMBDA r :
         BlockResult(r.exc = "", r.content, r.exc, prompted))

\* _process_single_block once search_before and search_content are computed
MatchBlock(content, before_text, search_before, search_content, after_text, replace_all, count, use_regex, args, answer) ==
    IF use_regex /\ InvalidPattern(search_before)
    THEN BlockResult(FALSE, content, "", FALSE)
    ELSE IF ~Contains(search_content, search_before)
    THEN BlockResult(FALSE, content, "", FALSE)
    ELSE IF args.dry_run THEN BlockResult(TRUE, content, "", FALSE)
    ELSE IF args.interactive
         THEN IF ~use_regex /\ search_content = <<>>
              THEN BlockResult(FALSE, content, "IndexError", FALSE)
              ELSE IF answer = "EOF"
              THEN BlockResult(FALSE, content, "EOFError", TRUE)
              ELSE IF answer # "y" THEN BlockResult(TRUE, content, "", TRUE)
              ELSE ReplaceBlock(content, before_text, search_before,
                                after_text, replace_all, count, use_regex,
                                TRUE)
    ELSE ReplaceBlock(content, before_text, search_before, after_text,
                      replace_all, count, use_regex, FALSE)

process_single_block(content, before_text, after_text, replace_all, count, ignore_whitespace, use_regex, args, answer) ==
    MatchBlock(content, before_text,
               IF ignore_whitespace THEN normalize_whitespace(before_text)
               ELSE before_text,
               IF ignore_whitespace THEN normalize_whitespace(content)
               ELSE content,
               after_text, replace_all, count, use_regex, args, answer)

(***************************************************************************)
(* The filesystem: a function from the paths that exist to                 *)
(* [kind |-> "file", content] or [kind |-> "dir"]                          *)
(***************************************************************************)
File(content) == [kind |-> "file", content |-> content]

Dir == [kind |-> "dir"]

exists(fs, path) == path \in DOMAIN fs

isfile(fs, path) == exists(fs, path) /\ fs[path].kind = "file"

isdir(fs, path) == exists(fs, path) /\ fs[path].kind = "dir"

RECURSIVE LastSlash(_, _)
LastSlash(path, i) ==
    IF i = 0 THEN 0 ELSE IF path[i] = "/" THEN i ELSE LastSlash(path, i - 1)

\* os.path.dirname / os.path.basename of a relative path
dirname(path) ==
    LET i == LastSlash(path, Len(path)) IN
    IF i = 0 THEN <<>> ELSE SubSeq(path, 1, i - 1)

basename(path) == SubSeq(path, LastSlash(path, Len(path)) + 1, Len(path))

join(a, b) == a \o <<"/">> \o b

\* path and the directories above it
RECURSIVE Ancestors(_)
Ancestors(path) ==
    IF path = <<>> THEN {} ELSE {path} \cup Ancestors(dirname(path))

IsUnder(path, dir) == StartsWith(path, dir \o <<"/">>, 0)

SetEntry(fs, path, entry) ==
    [q \in DOMAIN fs \cup {path} |-> IF q = path THEN entry ELSE fs[q]]

RemoveEntry(fs, path) == [q \in DOMAIN fs \ {path} |-> fs[q]]

(***************************************************************************)
(* What a handler works on: W = [fs, stats, backups, events, exc].         *)
(* backups is the manifest of the backup session, events the calls the     *)
(* handler has made to the operating system and to its collaborators, in   *)
(* the order it made them, exc the exception in flight ("" for none).      *)
(***************************************************************************)
Stats == [created |-> 0, deleted |-> 0, modified |-> 0, failed |-> 0,
          skipped |-> 0, clipboard_files |-> <<>>, clipboard_dirs |-> <<>>,
          clipboard_errors |-> <<>>, clipboard_buffer |-> <<>>]

Counters == {"created", "deleted", "modified", "failed", "skipped"}

Bump(W, counter) == [W EXCEPT !.stats[counter] = @ + 1]

Event(W, op, path) ==
    [W EXCEPT !.events = Append(@, [op |-> op, path |-> path])]

Raise(W, exc) == [W EXCEPT !.exc = exc]

\* "except IOError": the handler has caught the exception in flight
Caught(W) == [W EXCEPT !.exc = ""]

\* utils/backup.py backup_file: a missing path gives None at once; a
\* directory cannot be opened for reading, the IOError is caught inside and
\* nothing is recorded; a file is copied and entered in the manifest
backup_file(W, file_path) ==
    LET W1 == Event(W, "backup", file_path) IN
    IF isfile(W.fs, file_path)
    THEN [W1 EXCEPT !.backups =
              Append(@, [path |-> file_path,
                         content |-> W.fs[file_path].content])]
    ELSE W1

\* os.makedirs(path, exist_ok=True): OSError when path or a directory above
\* it is a file, and then nothing is created
makedirs(W, path) ==
    LET W1 == Event(W, "makedirs", path) IN
    IF \E a \in Ancestors(path) : isfile(W.fs, a) THEN Raise(W1, "IOError")
    ELSE [W1 EXCEPT !.fs = [q \in DOMAIN W.fs \cup Ancestors(path) |->
                               IF q \in DOMAIN W.fs THEN W.fs[q] ELSE Dir]]

\* open(path, 'w') and write: IOError when path is a directory or its parent
\* is not an existing directory
open_write(W, path, content) ==
    LET W1 == Event(W, "write", path) IN
    IF isdir(W.fs, path) \/ (dirname(path) # <<>> /\ ~isdir(W.fs, dirname(path)))
    THEN Raise(W1, "IOError")
    ELSE [W1 EXCEPT !.fs = SetEntry(W.fs, path, File(content))]

\* os.remove
remove(W, path) ==
    LET W1 == Event(W, "remove", path) IN
    IF isfile(W.fs, path) THEN [W1 EXCEPT !.fs = RemoveEntry(W.fs, path)]
    ELSE Raise(W1, "IOError")

\* The entries of fs with src (and what lies under it) renamed to dst
Renamed(fs, src, dst) ==
    LET moved == {q \in DOMAIN fs : q = src \/ IsUnder(q, src)}
        NewName(q) == dst \o SubSeq(q, Len(src) + 1, Len(q))
        kept == DOMAIN fs \ moved
    IN  [q \in kept \cup {NewName(m) : m \in moved} |->
            IF \E m \in moved : NewName(m) = q
            THEN fs[CHOOSE m \in moved : NewName(m) = q]
            ELSE fs[q]]

\* shutil.move(src, dst) of an existing src
move(W, src, dst) ==
    LET W1 == Event(W, "move", src)
        real_dst == IF isdir(W.fs, dst) /\ src # dst
                    THEN join(dst, basename(src)) ELSE dst
        fails == \/ (isdir(W.fs, dst) /\ src # dst /\ exists(W.fs, real_dst))
                 \/ (dirname(real_dst) # <<>> /\ ~isdir(W.fs, dirname(real_dst)))
                 \/ (isdir(W.fs, src) /\ isfile(W.fs, real_dst))
                 \/ (isdir(W.fs, src) /\ IsUnder(real_dst, src))
    IN  IF src = dst THEN W1
        ELSE IF fails THEN Raise(W1, "IOError")
        ELSE [W1 EXCEPT !.fs = Renamed(W.fs, src, real_dst)]

\* input(...) and what the handler does with the answer: the handler body
\* runs on "y", the directive is skipped on another answer, and at end of
\* input the EOFError leaves the handler
Declined(W, answer) ==
    IF answer = "EOF" THEN Raise(W, "EOFError") ELSE Bump(W, "skipped")

(***************************************************************************)
(* Handlers                                                                *)
(***************************************************************************)
\* The prompt of interactive mode
Prompt(W, args, path) ==
    IF args.interactive THEN Event(W, "prompt", path) ELSE W

\* The end of a handler's try block: the counter of success, or the
\* "except IOError" clause and failed
Conclude(W, counter) ==
    IF W.exc = "" THEN Bump(W, counter) ELSE Bump(Caught(W), "failed")

\* A call the handler makes inside its try block: skipped once an exception
\* is in flight
Then(W, Call(_)) == IF W.exc = "" THEN Call(W) ELSE W

\* A CREATE handler without the dry-run test of lines 13-17
CreateRegardless(W, file_path, content, args, answer) ==
    IF args.interactive /\ answer # "y"
    THEN Declined(Prompt(W, args, file_path), answer)
    ELSE Conclude(
             Then(makedirs(Prompt(W, args, file_path), dirname(file_path)),
                  LAMBDA V : open_write(V, file_path, content)),
             "created")

\* src/core/executors/create.py
CreateExecutor(W, file_path, content, args, answer) ==
    IF args.dry_run THEN Bump(W, "skipped")
    ELSE IF args.interactive /\ answer # "y"
         THEN Declined(Prompt(W, args, file_path), answer)
    ELSE Conclude(
             Then(makedirs(Prompt(W, args, file_path), dirname(file_path)),
                  LAMBDA V : open_write(V, file_path, content)),
             "created")

\* A DELETE handler that counts a missing path as a failure
DeleteOrFail(W, file_path, args, answer) ==
    IF ~exists(W.fs, file_path) THEN Bump(W, "failed")
    ELSE IF args.dry_run THEN Bump(W, "skipped")
    ELSE IF args.interactive /\ answer # "y"
         THEN Declined(Prompt(W, args, file_path), answer)
    ELSE Conclude(
             Then(IF ~args.no_backup
                  THEN backup_file(Prompt(W, args, file_path), file_path)
                  ELSE Prompt(W, args, file_path),
                  LAMBDA V : remove(V, file_path)),
             "deleted")

\* src/core/executors/delete.py
DeleteExecutor(W, file_path, args, answer) ==
    IF ~exists(W.fs, file_path) THEN Bump(W, "skipped")
    ELSE IF args.dry_run THEN Bump(W, "skipped")
    ELSE IF args.interactive /\ answer # "y"
         THEN Declined(Prompt(W, args, file_path), answer)
    ELSE Conclude(
             Then(IF ~args.no_backup
                  THEN backup_file(Prompt(W, args, file_path), file_path)
                  ELSE Prompt(W, args, file_path),
                  LAMBDA V : remove(V, file_path)),
             "deleted")

\* A MOVE handler that tests dry-run before it looks for the source
MoveDryRunFirst(W, source_path, dest_path, args, answer) ==
    IF args.dry_run THEN Bump(W, "skipped")
    ELSE IF ~exists(W.fs, source_path) THEN Bump(W, "failed")
    ELSE IF args.interactive /\ answer # "y"
         THEN Declined(Prompt(W, args, source_path), answer)
    ELSE Conclude(
             Then(Then(IF ~args.no_backup /\ isfile(W.fs, source_path)
                       THEN backup_file(Prompt(W, args, source_path),
                                        source_path)
                       ELSE Prompt(W, args, source_path),
                       LAMBDA V : IF dirname(dest_path) # <<>>
                                  THEN makedirs(V, dirname(dest_path))
                                  ELSE V),
                  LAMBDA V : move(V, source_path, dest_path)),
             "modified")

\* A MOVE handler that does not create the directories above the
\* destination
MoveWithoutParents(W, source_path, dest_path, args, answer) ==
    IF ~exists(W.fs, source_path) THEN Bump(W, "failed")
    ELSE IF args.dry_run THEN Bump(W, "skipped")
    ELSE IF args.interactive /\ answer # "y"
         THEN Declined(Prompt(W, args, source_path), answer)
    ELSE Conclude(
             Then(IF ~args.no_backup /\ isfile(W.fs, source_path)
                  THEN backup_file(Prompt(W, args, source_path), source_path)
                  ELSE Prompt(W, args, source_path),
                  LAMBDA V : move(V, source_path, dest_path)),
             "modified")

\* KifDiff/core/directives/move.py
MoveDirective(W, source_path, dest_path, args, answer) ==
    IF ~exists(W.fs, source_path) THEN Bump(W, "failed")
    ELSE IF args.dry_run THEN Bump(W, "skipped")
    ELSE IF args.interactive /\ answer # "y"
         THEN Declined(Prompt(W, args, source_path), answer)
    ELSE Conclude(
             Then(Then(IF ~args.no_backup /\ isfile(W.fs, source_path)
                       THEN backup_file(Prompt(W, args, source_path),
                                        source_path)
                       ELSE Prompt(W, args, source_path),
                       LAMBDA V : IF dirname(dest_path) # <<>>
                                  THEN makedirs(V, dirname(dest_path))
                                  ELSE V),
                  LAMBDA V : move(V, source_path, dest_path)),
             "modified")

\* KifDiff/core/directives/overwrite.py: there is no prompt in this handler
OverwriteDirective(W, file_path, content, args) ==
    IF args.dry_run THEN Bump(W, "skipped")
    ELSE Conclude(
             Then(Then(IF exists(W.fs, file_path) /\ ~args.no_backup
                       THEN backup_file(W, file_path) ELSE W,
                       LAMBDA V : IF dirname(file_path) # <<>>
                                     /\ ~exists(V.fs, dirname(file_path))
                                  THEN makedirs(V, dirname(file_path))
                                  ELSE V),
                  LAMBDA V : open_write(V, file_path, content)),
             "modified")

\* Parameter names
K_replace_all == <<"r","e","p","l","a","c","e","_","a","l","l">>

K_count == <<"c","o","u","n","t">>

K_ignore_whitespace ==
    <<"i","g","n","o","r","e","_","w","h","i","t","e","s","p","a","c","e">>

K_regex == <<"r","e","g","e","x">>

K_depth == <<"d","e","p","t","h">>

K_include_files ==
    <<"i","n","c","l","u","d","e","_","f","i","l","e","s">>

K_show_hidden == <<"s","h","o","w","_","h","i","d","d","e","n">>

\* The for loop over the blocks (search_replace.py 102-117): the state is
\* [content, failed, exc, W]; a block that is not found ends the loop.
\* answers[k] is what input() gives at the prompt of block k.  Each call of
\* _process_single_block is recorded as a "block" event
BlocksState(content, failed, exc, W) ==
    [content |-> content, failed |-> failed, exc |-> exc, W |-> W]

\* A loop that hands every block the content read from the file, not the
\* output of the block before it
RECURSIVE process_blocks_on_original(_, _, _, _, _)
process_blocks_on_original(st, blocks, params, args, answers) ==
    IF blocks = <<>> \/ st.failed \/ st.exc # "" THEN st
    ELSE Bind(process_single_block(
                  st.W.fs[<<"a">>].content, Head(blocks).before,
                  Head(blocks).after,
                  Truthy(ParamGet(params, K_replace_all, BoolV(FALSE))),
                  ParamGet(params, K_count, IntV(1)),
                  Truthy(ParamGet(params, K_ignore_whitespace, BoolV(FALSE))),
                  Truthy(ParamGet(params, K_regex, BoolV(FALSE))),
                  args, Head(answers)), LAMBDA r :
         process_blocks_on_original(
             BlocksState(r.content, ~r.success /\ r.exc = "", r.exc,
                         Event(st.W, "block", <<>>)),
             Tail(blocks), params, args, Tail(answers)))

\* A loop that goes on to the next block after one that was not found
RECURSIVE process_blocks_to_the_end(_, _, _, _, _)
process_blocks_to_the_end(st, blocks, params, args, answers) ==
    IF blocks = <<>> \/ st.exc # "" THEN st
    ELSE Bind(process_single_block(
                  st.content, Head(blocks).before, Head(blocks).after,
                  Truthy(ParamGet(params, K_replace_all, BoolV(FALSE))),
                  ParamGet(params, K_count, IntV(1)),
                  Truthy(ParamGet(params, K_ignore_whitespace, BoolV(FALSE))),
                  Truthy(ParamGet(params, K_regex, BoolV(FALSE))),
                  args, Head(answers)), LAMBDA r :
         process_blocks_to_the_end(
             BlocksState(r.content, st.failed \/ (~r.success /\ r.exc = ""),
                         r.exc, Event(st.W, "block", <<>>)),
             Tail(blocks), params, args, Tail(answers)))

RECURSIVE process_blocks(_, _, _, _, _)
process_blocks(st, blocks, params, args, answers) ==
    IF blocks = <<>> \/ st.failed \/ st.exc # "" THEN st
    ELSE Bind(process_single_block(
                  st.content, Head(blocks).before, Head(blocks).after,
                  Truthy(ParamGet(params, K_replace_all, BoolV(FALSE))),
                  ParamGet(params, K_count, IntV(1)),
                  Truthy(ParamGet(params, K_ignore_whitespace, BoolV(FALSE))),
                  Truthy(ParamGet(params, K_regex, BoolV(FALSE))),
                  args, Head(answers)), LAMBDA r :
         process_blocks(
             BlocksState(r.content, ~r.success /\ r.exc = "", r.exc,
                         IF r.prompted
                         THEN Event(Event(st.W, "block", <<>>), "prompt", <<>>)
                         ELSE Event(st.W, "block", <<>>)),
             Tail(blocks), params, args, Tail(answers)))

\* An end of SEARCH_AND_REPLACE that does not write, and counts skipped, when
\* the blocks have left the content as it was
WriteBackIfChanged(st, file_path, args) ==
    IF st.exc # "" THEN Raise(st.W, st.exc)
    ELSE IF st.failed THEN Bump(st.W, "failed")
    ELSE IF st.content = st.W.fs[file_path].content
    THEN Bump(st.W, "skipped")
    ELSE Conclude(open_write(IF ~args.no_backup
                             THEN backup_file(st.W, file_path) ELSE st.W,
                             file_path, st.content),
                  "modified")

\* An end of SEARCH_AND_REPLACE that, after a block that was not found,
\* writes what the blocks before it have made of the content
WriteBackPartial(st, file_path, args) ==
    IF st.exc # "" THEN Raise(st.W, st.exc)
    ELSE Conclude(open_write(IF ~args.no_backup
                             THEN backup_file(st.W, file_path) ELSE st.W,
                             file_path, st.content),
                  IF st.failed THEN "failed" ELSE "modified")

\* The end of SEARCH_AND_REPLACE with the write placed before the backup
WriteThenBackup(st, file_path, args) ==
    IF st.exc # "" THEN Raise(st.W, st.exc)
    ELSE IF st.failed THEN Bump(st.W, "failed")
    ELSE Conclude(Then(open_write(st.W, file_path, st.content),
                       LAMBDA V : IF ~args.no_backup
                                  THEN backup_file(V, file_path) ELSE V),
                  "modified")

\* search_replace.py 119-134: the blocks are done
WriteBack(st, file_path, args) ==
    IF st.exc # "" THEN Raise(st.W, st.exc)
    ELSE IF st.failed THEN Bump(st.W, "failed")
    ELSE Conclude(open_write(IF ~args.no_backup
                             THEN backup_file(st.W, file_path) ELSE st.W,
                             file_path, st.content),
                  "modified")

\* KifDiff/core/directives/search_replace.py execute
SearchReplaceDirective(W, file_path, blocks, params, args, answers) ==
    IF ~exists(W.fs, file_path) THEN Bump(W, "failed")
    ELSE IF isdir(W.fs, file_path)
         THEN Bump(Event(W, "read", file_path), "failed")
    ELSE WriteBack(
             process_blocks(
                 BlocksState(W.fs[file_path].content, FALSE, "",
                             Event(W, "read", file_path)),
                 blocks, params, args, answers),
             file_path, args)

\* An entry of stats.clipboard_buffer, of the clipboard lists or of the
\* clipboard itself: what it reports, about which path
Report(kind, path, body) == [kind |-> kind, path |-> path, body |-> body]

Note(W, list, item) == [W EXCEPT !.stats[list] = Append(@, item)]

\* KifDiff/core/directives/read.py, with pyperclip installed
ReadDirective(W, file_path, args) ==
    LET W0 == Event(W, "read", file_path)
        failure(V) == Note(Event(Bump(V, "failed"), "copy", file_path),
                           "clipboard_errors", Report("READ", file_path, {}))
    IN  IF ~exists(W.fs, file_path) THEN failure(W)
        ELSE IF isdir(W.fs, file_path) THEN failure(W0)
        ELSE Bump(Note(Event(W0, "copy", file_path), "clipboard_files",
                       file_path), "modified")

\* The path of q relative to the directory dir above it, as its components
RECURSIVE Split(_, _)
Split(t, sep) ==
    LET j == Find(t, <<sep>>) IN
    IF j = -1 THEN <<t>>
    ELSE <<Slice(t, 0, j)>> \o Split(Slice(t, j + 1, Len(t)), sep)

RelParts(q, dir) == Split(SubSeq(q, Len(dir) + 2, Len(q)), "/")

Hidden(name) == name # <<>> /\ name[1] = "."

\* What the recursive listing of a directory reaches: hidden entries are
\* left out unless show_hidden, and an entry below max_depth directories is
\* not reached (max_depth -1: no limit)
Listed(fs, dir, max_depth, show_hidden) ==
    {q \in DOMAIN fs :
        /\ IsUnder(q, dir)
        /\ LET parts == RelParts(q, dir)
           IN  /\ max_depth = -1 \/ Len(parts) <= max_depth
               /\ show_hidden \/ \A i \in 1..Len(parts) : ~Hidden(parts[i])}

\* src/core/executors/tree.py
TreeExecutor(W, dir_path, params, args) ==
    LET failure == Note(Note(Bump(W, "failed"), "clipboard_buffer",
                             Report("TREE ERROR", dir_path, {})),
                        "clipboard_errors", Report("TREE", dir_path, {}))
        max_depth == ParamGet(params, K_depth, IntV(-1))
        show_hidden == Truthy(ParamGet(params, K_show_hidden, BoolV(FALSE)))
        \* read at line 38; lines 58-64 append the entry before they look
        \* at it, so the listing does not depend on it
        include_files == Truthy(ParamGet(params, K_include_files,
                                         BoolV(TRUE)))
        tree == Listed(W.fs, dir_path, CountValue(max_depth), show_hidden)
    IN  IF ~isdir(W.fs, dir_path) THEN failure
        ELSE IF max_depth.t = "str" THEN Raise(W, "TypeError")
        ELSE IF args.dry_run THEN Bump(W, "skipped")
        ELSE Note(Note(W, "clipboard_buffer",
                       Report("DIRECTORY TREE", dir_path, tree)),
                  "clipboard_dirs", dir_path)

\* The characters of file names in the order of their code points
CodePoints ==
    <<".", "/", "0", "1", "2", "3", "4", "5", "6", "7", "8", "9",
      "A", "B", "C", "D", "E", "F", "G", "H", "I", "J", "K", "L", "M",
      "N", "O", "P", "Q", "R", "S", "T", "U", "V", "W", "X", "Y", "Z", "_",
      "a", "b", "c", "d", "e", "f", "g", "h", "i", "j", "k", "l", "m",
      "n", "o", "p", "q", "r", "s", "t", "u", "v", "w", "x", "y", "z">>

Ord(c) == CHOOSE i \in 1..Len(CodePoints) : CodePoints[i] = c

\* a < b of two Python strings
RECURSIVE StrLess(_, _)
StrLess(a, b) ==
    IF a = <<>> THEN b # <<>>
    ELSE IF b = <<>> THEN FALSE
    ELSE IF Head(a) = Head(b) THEN StrLess(Tail(a), Tail(b))
    ELSE Ord(Head(a)) < Ord(Head(b))

\* sorted(entries)
RECURSIVE Sorted(_)
Sorted(entries) ==
    IF entries = {} THEN <<>>
    ELSE LET first == CHOOSE e \in entries :
                          \A o \in entries \ {e} : StrLess(e, o)
         IN  <<first>> \o Sorted(entries \ {first})

\* os.listdir(path): the names of the entries of the directory
listdir(fs, path) == {basename(q) : q \in {e \in DOMAIN fs : dirname(e) = path}}

\* Regular expressions of FIND.  The model covers the patterns written
\* with ordinary characters, '.', a '*' after one of these, '\' before a
\* character, '^' at the start and '$' at the end, and the patterns with an
\* unbalanced parenthesis, which re.compile rejects.
\* The atom of pat at i: how many characters it takes, whether c matches it
AtomLen(pat, i) == IF pat[i] = "\\" THEN 2 ELSE 1

AtomMatches(pat, i, c) ==
    IF pat[i] = "\\" THEN c = pat[i + 1]
    ELSE IF pat[i] = "." THEN TRUE
    ELSE c = pat[i]

\* pat from its i-th character on matches text at offset j
RECURSIVE MatchHere(_, _, _, _)
MatchHere(pat, i, text, j) ==
    IF i > Len(pat) THEN TRUE
    ELSE IF pat[i] = "$" /\ i = Len(pat) THEN j = Len(text)
    ELSE LET n == AtomLen(pat, i) IN
         IF i + n <= Len(pat) /\ pat[i + n] = "*"
         THEN \E k \in j..Len(text) :
                  /\ \A m \in (j + 1)..k : AtomMatches(pat, i, text[m])
                  /\ MatchHere(pat, i + n + 1, text, k)
         ELSE /\ j < Len(text)
              /\ AtomMatches(pat, i, text[j + 1])
              /\ MatchHere(pat, i + n, text, j + 1)

\* pattern.search(text)
Search(pat, text) ==
    IF pat # <<>> /\ pat[1] = "^" THEN MatchHere(pat, 2, text, 0)
    ELSE \E j \in 0..Len(text) : MatchHere(pat, 1, text, j)

\* A should_include_file that does not look at the exclude pattern
IncludeIgnoringExclude(filename, match_pattern, include_pattern, exclude_pattern) ==
    /\ Search(match_pattern, filename)
    /\ ~(include_pattern # <<>> /\ ~Search(include_pattern, filename))

\* FindExecutor.should_include_file; an include or exclude pattern that is
\* not given is <<>>
should_include_file(filename, match_pattern, include_pattern, exclude_pattern) ==
    /\ Search(match_pattern, filename)
    /\ ~(exclude_pattern # <<>> /\ Search(exclude_pattern, filename))
    /\ ~(include_pattern # <<>> /\ ~Search(include_pattern, filename))

\* FindExecutor.find_files: walk_directory and its loop over the sorted
\* entries.  patterns is [match, include, exclude]; max_depth -1: no limit
RECURSIVE walk_directory(_, _, _, _, _)
RECURSIVE walk_entries(_, _, _, _, _, _)
walk_directory(fs, path, depth, patterns, max_depth) ==
    IF max_depth # -1 /\ depth >= max_depth THEN <<>>
    ELSE walk_entries(fs, path, Sorted(listdir(fs, path)), depth, patterns,
                      max_depth)

walk_entries(fs, path, entries, depth, patterns, max_depth) ==
    IF entries = <<>> THEN <<>>
    ELSE Bind(join(path, Head(entries)), LAMBDA full_path :
         (IF isfile(fs, full_path)
          THEN IF should_include_file(Head(entries), patterns.match,
                                      patterns.include, patterns.exclude)
               THEN <<full_path>> ELSE <<>>
          ELSE IF isdir(fs, full_path) /\ ~Hidden(Head(entries))
          THEN walk_directory(fs, full_path, depth + 1, patterns, max_depth)
          ELSE <<>>)
         \o walk_entries(fs, path, Tail(entries), depth, patterns, max_depth))

find_files(fs, directory, patterns, max_depth) ==
    walk_directory(fs, directory, 0, patterns, max_depth)

K_match_pattern == <<"m","a","t","c","h","_","p","a","t","t","e","r","n">>

K_pattern == <<"p","a","t","t","e","r","n">>

K_include == <<"i","n","c","l","u","d","e">>

K_exclude == <<"e","x","c","l","u","d","e">>

\* self.compile_pattern(value) at lines 104-106: re.compile of a value that
\* is no string raises TypeError, of an invalid pattern re.error, which
\* compile_pattern turns into ValueError
compile_pattern(value) ==
    IF value.t # "str" THEN "TypeError"
    ELSE IF InvalidPattern(value.v) THEN "ValueError"
    ELSE ""

\* The first exception of lines 104-106: the match pattern is compiled,
\* then the include and the exclude pattern when they are given
CompilePatterns(match, include, exclude) ==
    IF compile_pattern(match) # "" THEN compile_pattern(match)
    ELSE IF Truthy(include) /\ compile_pattern(include) # ""
    THEN compile_pattern(include)
    ELSE IF Truthy(exclude) THEN compile_pattern(exclude)
    ELSE ""

\* src/core/executors/find.py execute
FindExecutor(W, directory, params, args) ==
    LET match == ParamGet(params, K_match_pattern,
                          ParamGet(params, K_pattern, StrV(<<".", "*">>)))
        include == ParamGet(params, K_include, StrV(<<>>))
        exclude == ParamGet(params, K_exclude, StrV(<<>>))
        max_depth == ParamGet(params, K_depth, IntV(-1))
        compiled == CompilePatterns(match, include, exclude)
        files == find_files(W.fs, directory,
                            [match |-> match.v,
                             include |-> IF Truthy(include) THEN include.v
                                         ELSE <<>>,
                             exclude |-> IF Truthy(exclude) THEN exclude.v
                                         ELSE <<>>],
                            CountValue(max_depth))
    IN  IF ~isdir(W.fs, directory) THEN Bump(W, "failed")
        ELSE IF compiled = "ValueError" THEN Bump(W, "failed")
        ELSE IF compiled = "TypeError" THEN Raise(W, "TypeError")
        ELSE IF args.dry_run THEN Bump(W, "skipped")
        ELSE IF max_depth.t = "str" THEN Bump(W, "failed")
        ELSE IF files = <<>> THEN W
        ELSE Note(Note(W, "clipboard_buffer",
                       Report("FIND RESULTS", directory, files)),
                  "clipboard_dirs", directory)

K_timeout == <<"t","i","m","e","o","u","t">>

K_cwd == <<"c","w","d">>

\* is_command_allowed of src/core/executors/run.py under the default
\* configuration (blocklist mode); of the blocked patterns the model has
\* '.*sudo.*'
is_command_allowed(command) == ~Contains(command, <<"s","u","d","o">>)

\* What subprocess.run gives: a return code of 0, another return code,
\* TimeoutExpired, another exception (the command cannot be started)
RunOutcomes == {"exit0", "exit1", "timeout", "error"}

\* src/core/executors/run.py execute_run.  A timeout given as a string
\* makes the comparison of line 19 raise TypeError; a cwd that is not a
\* string makes Path(cwd) raise TypeError inside the try block, and a cwd
\* that is a file makes subprocess.run raise NotADirectoryError
execute_run(W, command, params, args, outcome) ==
    LET timeout == ParamGet(params, K_timeout, IntV(30))
        cwd == ParamGet(params, K_cwd, StrV(<<>>))
        entry(V, kind) == Note(V, "clipboard_buffer", Report(kind, command, {}))
        error(V, kind) == Bump(Note(entry(V, kind), "clipboard_errors", command),
                               "failed")
        result == IF Truthy(cwd) /\ isfile(W.fs, cwd.v) THEN "error"
                  ELSE outcome
    IN  IF timeout.t = "str" THEN Raise(W, "TypeError")
        ELSE IF ~is_command_allowed(command) THEN error(W, "DENIED")
        ELSE IF args.dry_run THEN W
        ELSE IF Truthy(cwd) /\ cwd.t # "str" THEN error(W, "ERROR")
        ELSE IF Truthy(cwd) /\ ~exists(W.fs, cwd.v) THEN Bump(W, "failed")
        ELSE Bind(Event(W, "run", command), LAMBDA V :
             CASE result = "exit0" -> Bump(entry(V, "SUCCESS"), "modified")
               [] result = "exit1" -> Bump(entry(V, "FAILED"), "failed")
               [] result = "timeout" -> error(V, "TIMEOUT")
               [] result = "error" -> error(V, "ERROR"))

(***************************************************************************)
(* Dispatcher (src/core/executor.py)                                       *)
(***************************************************************************)
\* ASTExecutor.execute_directive; the lexer gives no RUN token, so no
\* RunDirective reaches it from a document.  answers is what the handler is
\* given from outside: the answers of input(), the outcome of subprocess.run
execute_directive(W, directive, args, answers) ==
    CASE directive.kind = "Create" ->
           CreateExecutor(W, directive.path, directive.content, args,
                          Head(answers))
      [] directive.kind = "Delete" ->
           DeleteExecutor(W, directive.path, args, Head(answers))
      [] directive.kind = "Move" ->
           MoveDirective(W, directive.source, directive.dest, args,
                         Head(answers))
      [] directive.kind = "Read" -> ReadDirective(W, directive.path, args)
      [] directive.kind = "Tree" ->
           TreeExecutor(W, directive.path, directive.params, args)
      [] directive.kind = "OverwriteFile" ->
           OverwriteDirective(W, directive.path, directive.content, args)
      [] directive.kind = "SearchAndReplace" ->
           SearchReplaceDirective(W, directive.path, directive.blocks,
                                  directive.params, args, answers)
      [] directive.kind = "Find" ->
           FindExecutor(W, directive.path, directive.params, args)
      [] directive.kind = "Run" ->
           execute_run(W, directive.command, directive.params, args,
                       Head(answers))

\* The except clause of ASTExecutor.execute (lines 45-50): the handler has
\* ended in W, an exception it has let through is caught and counted
FaultBoundary(W) == IF W.exc # "" THEN Bump(Caught(W), "failed") ELSE W

\* A loop that leaves out the directive after one whose handler raised
SkipAfterError(i, exc) == IF exc = "" THEN i + 1 ELSE i + 2

\* The for loop of ASTExecutor.execute: the directive that follows the one
\* at index i, whose handler raised exc ("" for none)
NextDirective(i, exc) == i + 1

\* One iteration of the loop on the directive at index i: the world after
\* it, the exception the handler raised, the index the loop goes on with
Iteration(W, i, directive, args, answers) ==
    Bind(execute_directive(W, directive, args, answers), LAMBDA H :
         [after |-> FaultBoundary(H), raised |-> H.exc,
          next |-> NextDirective(i, H.exc)])

(***************************************************************************)
(* Inputs: documents are written from a few directive texts, over the      *)
(* paths a and e/b and the directory d                                     *)
(***************************************************************************)
MaxDirectives == 2

Header(name, params, argument) ==
    Sentinel \o <<" ">> \o name \o params
    \o (IF argument = <<>> THEN <<>> ELSE <<" ">> \o argument) \o <<"\n">>

Marker(name) == Header(name, <<>>, <<>>)

BlockText(before, after) ==
    Marker(W_BEFORE) \o before \o Marker(W_END_BEFORE)
    \o Marker(W_AFTER) \o after \o Marker(W_END_AFTER)

SearchReplaceText(params, path, blocks) ==
    Header(W_SEARCH_AND_REPLACE, params, path) \o blocks
    \o Marker(W_END_SEARCH_AND_REPLACE)

WellFormedPieces ==
    {"create_eb", "delete_a", "move_a_eb", "overwrite_a", "sr_a", "read_a",
     "tree_d", "find_d"}

\* A directive name outside the vocabulary (the lexer rejects it), a
\* SEARCH_AND_REPLACE with no AFTER block (the parser rejects it), an end
\* marker where a directive should start (the parser's dispatch raises
\* AttributeError on it)
MalformedPieces == {"unknown", "sr_no_after", "stray_end"}

Pieces == WellFormedPieces \cup MalformedPieces

\* A directive of each of the nine top-level names, and a SEARCH_AND_REPLACE
\* whose header is followed directly by its end marker
NamedPieces == WellFormedPieces \cup {"run_ls", "sr_empty"}

PieceText(piece) ==
    CASE piece = "create_eb" ->
           Header(W_CREATE, <<>>, <<"e", "/", "b">>) \o <<"y", "\n">>
           \o Marker(W_END_CREATE)
      [] piece = "delete_a" -> Header(W_DELETE, <<>>, <<"a">>)
      [] piece = "move_a_eb" ->
           Header(W_MOVE, <<>>, <<"a", " ", "e", "/", "b">>)
      [] piece = "overwrite_a" ->
           Header(W_OVERWRITE_FILE, <<>>, <<"a">>) \o <<"z", "\n">>
           \o Marker(W_END_OVERWRITE_FILE)
      [] piece = "sr_a" ->
           SearchReplaceText(<<"(", "c", "o", "u", "n", "t", "=", "1", ")">>,
                             <<"a">>,
                             BlockText(<<"x", "\n">>, <<"y", "\n">>)
                             \o BlockText(<<"x", "\n">>, <<"z", "\n">>))
      [] piece = "read_a" -> Header(W_READ, <<>>, <<"a">>)
      [] piece = "tree_d" -> Header(W_TREE, <<>>, <<"d">>)
      [] piece = "find_d" -> Header(W_FIND, <<>>, <<"d">>)
      [] piece = "unknown" -> Header(<<"F", "O", "O">>, <<>>, <<"a">>)
      [] piece = "sr_no_after" ->
           SearchReplaceText(<<>>, <<"a">>,
                             Marker(W_BEFORE) \o <<"x", "\n">>
                             \o Marker(W_END_BEFORE))
      [] piece = "stray_end" -> Marker(W_END_AFTER)
      [] piece = "run_ls" -> Header(<<"R", "U", "N">>, <<>>, <<"l", "s">>)
      [] piece = "sr_empty" -> SearchReplaceText(<<>>, <<"a">>, <<>>)
      [] piece = "hdr_create" -> Header(W_CREATE, <<>>, <<"b">>)
      [] piece = "hdr_overwrite" -> Header(W_OVERWRITE_FILE, <<>>, <<"a">>)
      [] piece = "hdr_sr" -> Header(W_SEARCH_AND_REPLACE, <<>>, <<"a">>)
      [] piece = "end_create" -> Marker(W_END_CREATE)
      [] piece = "end_overwrite" -> Marker(W_END_OVERWRITE_FILE)
      [] piece = "end_sr" -> Marker(W_END_SEARCH_AND_REPLACE)
      [] piece = "begin_before" -> Marker(W_BEFORE)
      [] piece = "end_before" -> Marker(W_END_BEFORE)
      [] piece = "begin_after" -> Marker(W_AFTER)
      [] piece = "end_after" -> Marker(W_END_AFTER)
      [] piece = "text_x" -> <<"x", "\n">>
      [] piece = "text_z" -> <<"z", "\n">>
      [] piece = "kif_bare" -> Sentinel \o <<"\n">>
      [] piece = "kif_mid" -> <<"x">> \o Sentinel \o <<" ", "y", "\n">>

\* The directive variant a well-formed piece is
PieceKind(piece) ==
    CASE piece = "create_eb" -> "Create"
      [] piece = "delete_a" -> "Delete"
      [] piece = "move_a_eb" -> "Move"
      [] piece = "overwrite_a" -> "OverwriteFile"
      [] piece = "sr_a" -> "SearchAndReplace"
      [] piece = "read_a" -> "Read"
      [] piece = "tree_d" -> "Tree"
      [] piece = "find_d" -> "Find"
      [] piece = "run_ls" -> "Run"
      [] piece = "sr_empty" -> "SearchAndReplace"

Documents == UNION {[1..n -> Pieces] : n \in 0..MaxDirectives}

RECURSIVE Render(_)
Render(document) ==
    IF document = <<>> THEN <<>>
    ELSE PieceText(Head(document)) \o Render(Tail(document))

Malformed(document) ==
    \E i \in 1..Len(document) : document[i] \in MalformedPieces

\* The filesystems a run starts from: nothing; the file a and the directory
\* d with the file d/c in it
NoFiles == <<>>

SomeFiles ==
    (<<"a">> :> File(<<"x", "\n", "x", "\n">>))
    @@ (<<"d">> :> Dir) @@ (<<"d", "/", "c">> :> File(<<"x", "\n">>))

Filesystems == {NoFiles, SomeFiles}

Configurations ==
    [dry_run : BOOLEAN, interactive : BOOLEAN, no_backup : BOOLEAN,
     verbose : BOOLEAN]

(***************************************************************************)
(* The run of parse_kifdiff over one document                              *)
(***************************************************************************)
VARIABLES
    document,   \* the text of the .kifdiff file, as its pieces
    args,       \* the run configuration
    pc,         \* where parse_kifdiff is: start, lexed, exec, done, aborted;
                \* rolled_back once main.py --rollback has run
    tokens,     \* lexer.tokenize()
    program,    \* parser.parse().directives
    idx,        \* the directive the loop of ASTExecutor.execute is at
    fs,         \* the filesystem
    fs0,        \* the filesystem the run started from
    stats,      \* the Stats object
    backups,    \* the manifest of the session's backups
    log         \* per executed directive: its index, the filesystem, stats
                \* and backups before and after it, the answers input() gave,
                \* the calls its handler made in order, the exception it
                \* raised

vars == <<document, args, pc, tokens, program, idx, fs, fs0, stats, backups,
          log>>

Init ==
    /\ document \in Documents
    /\ args \in Configurations
    /\ fs \in Filesystems
    /\ fs0 = fs
    /\ pc = "start"
    /\ tokens = <<>>
    /\ program = <<>>
    /\ idx = 1
    /\ stats = Stats
    /\ backups = <<>>
    /\ log = <<>>

\* parse_kifdiff's except clauses (parser.py 456-469): a SyntaxError is
\* counted as failed, another exception only under verbose
Abort(exc) ==
    /\ pc' = "aborted"
    /\ stats' = IF exc = "SyntaxError" \/ args.verbose
                THEN [stats EXCEPT !.failed = @ + 1] ELSE stats

\* lexer = Lexer(content); tokens = lexer.tokenize()
TokenizeDocument ==
    /\ pc = "start"
    /\ LET r == Tokenize(Render(document))
       IN  IF r.error # ""
           THEN Abort(r.error) /\ UNCHANGED tokens
           ELSE pc' = "lexed" /\ tokens' = r.tokens /\ UNCHANGED stats
    /\ UNCHANGED <<document, args, program, idx, fs, fs0, backups, log>>

\* parser = Parser(tokens); program = parser.parse()
ParseDocument ==
    /\ pc = "lexed"
    /\ LET r == Parse(tokens)
       IN  IF r.error # ""
           THEN Abort(r.error) /\ UNCHANGED program
           ELSE pc' = "exec" /\ program' = r.directives /\ UNCHANGED stats
    /\ UNCHANGED <<document, args, tokens, idx, fs, fs0, backups, log>>

\* What input() may give at the prompts of a directive, and for a Run
\* directive what subprocess.run may give
AnswerChoices(directive) ==
    LET n == IF directive.kind = "SearchAndReplace"
             THEN Max(Len(directive.blocks), 1) ELSE 1
    IN  IF directive.kind = "Run" THEN {<<o>> : o \in RunOutcomes}
        ELSE IF args.interactive THEN [1..n -> Answers]
        ELSE {[i \in 1..n |-> "y"]}

\* The answers input() has given: one for each prompt among the calls
Given(answers, events) ==
    SubSeq(answers, 1,
           Cardinality({i \in 1..Len(events) : events[i].op = "prompt"}))

\* The loop of ASTExecutor.execute is at a directive of the given variant
Dispatching(kind) ==
    /\ pc = "exec"
    /\ idx <= Len(program)
    /\ program[idx].kind = kind

\* One iteration of the loop of ASTExecutor.execute
Execute ==
    /\ \E answers \in AnswerChoices(program[idx]) :
       \E R \in {Iteration([fs |-> fs, stats |-> stats, backups |-> backups,
                            events |-> <<>>, exc |-> ""],
                           idx, program[idx], args, answers)} :
         /\ fs' = R.after.fs
         /\ stats' = R.after.stats
         /\ backups' = R.after.backups
         /\ log' = Append(log, [directive |-> idx,
                                before |-> [fs |-> fs, stats |-> stats,
                                            backups |-> backups],
                                answers |-> Given(answers, R.after.events),
                                events |-> R.after.events,
                                raised |-> R.raised,
                                after |-> [fs |-> R.after.fs,
                                           stats |-> R.after.stats,
                                           backups |-> R.after.backups]])
         /\ idx' = R.next
    /\ UNCHANGED <<document, args, pc, tokens, program, fs0>>

ExecuteCreate == Dispatching("Create") /\ Execute

ExecuteDelete == Dispatching("Delete") /\ Execute

ExecuteMove == Dispatching("Move") /\ Execute

ExecuteRead == Dispatching("Read") /\ Execute

ExecuteTree == Dispatching("Tree") /\ Execute

ExecuteOverwrite == Dispatching("OverwriteFile") /\ Execute

ExecuteSearchReplace == Dispatching("SearchAndReplace") /\ Execute

ExecuteFind == Dispatching("Find") /\ Execute

ExecuteRun == Dispatching("Run") /\ Execute

\* The loop is over: stats.print_summary(), return stats
Finish ==
    /\ pc = "exec"
    /\ idx > Len(program)
    /\ pc' = "done"
    /\ UNCHANGED <<document, args, tokens, program, idx, fs, fs0, stats,
                   backups, log>>

Next ==
    \/ TokenizeDocument
    \/ ParseDocument
    \/ ExecuteCreate
    \/ ExecuteDelete
    \/ ExecuteMove
    \/ ExecuteRead
    \/ ExecuteTree
    \/ ExecuteOverwrite
    \/ ExecuteSearchReplace
    \/ ExecuteFind
    \/ Finish

Spec == Init /\ [][Next]_vars

(***************************************************************************)
(* The run of parse_kifdiff over the documents written with the nine       *)
(* top-level names, non-interactive                                        *)
(***************************************************************************)
NamesInit ==
    /\ document \in UNION {[1..n -> NamedPieces] : n \in 0..MaxDirectives}
    /\ args \in {c \in Configurations : ~c.interactive /\ ~c.verbose
                                        /\ ~c.no_backup}
    /\ fs \in Filesystems
    /\ fs0 = fs
    /\ pc = "start"
    /\ tokens = <<>>
    /\ program = <<>>
    /\ idx = 1
    /\ stats = Stats
    /\ backups = <<>>
    /\ log = <<>>

NamesSpec == NamesInit /\ [][Next]_vars

(***************************************************************************)
(* The run of ASTExecutor.execute over a Program of one SEARCH_AND_REPLACE *)
(* directive with a count parameter and one block, on the file a: the      *)
(* replacement engine on every content, BEFORE and AFTER text and count of *)
(* the bounds                                                              *)
(***************************************************************************)
MaxContent == 3

MaxBefore == 2

MaxCount == 3

Letters == {"x", "y"}

TextsUpTo(n) == UNION {[1..k -> Letters] : k \in 0..n}

\* AFTER texts: nothing, a text without the letters of BEFORE, texts that
\* BEFORE may occur in or end with
AfterTexts == {<<>>, <<"z">>, <<"x", "x">>, <<"y">>}

ReplaceDirective(before, after, n) ==
    [kind |-> "SearchAndReplace", line |-> 1, column |-> 1,
     params |-> (K_count :> IntV(n)), path |-> <<"a">>,
     blocks |-> <<BeforeAfterBlock(before, after)>>]

\* The same directive with replace_all=true in place of the count
ReplaceAllDirective(before, after) ==
    [ReplaceDirective(before, after, 1)
        EXCEPT !.params = (K_replace_all :> BoolV(TRUE))]

ReplaceInit ==
    /\ document = <<>>
    /\ tokens = <<>>
    /\ args \in {c \in Configurations : ~c.dry_run /\ ~c.interactive
                                        /\ ~c.verbose}
    /\ \E content \in TextsUpTo(MaxContent), before \in TextsUpTo(MaxBefore),
          after \in AfterTexts :
         /\ fs = (<<"a">> :> File(content))
         /\ program \in {<<ReplaceDirective(before, after, n)>> :
                             n \in 1..MaxCount}
                        \cup {<<ReplaceAllDirective(before, after)>>}
    /\ fs0 = fs
    /\ pc = "exec"
    /\ idx = 1
    /\ stats = Stats
    /\ backups = <<>>
    /\ log = <<>>

ReplaceNext ==
    \/ ExecuteSearchReplace
    \/ Finish

ReplaceSpec == ReplaceInit /\ [][ReplaceNext]_vars

(***************************************************************************)
(* The run of ASTExecutor.execute over a Program of one SEARCH_AND_REPLACE *)
(* directive of one block or more on the file a, non-interactive, with and *)
(* without dry-run: the loop over the blocks                               *)
(***************************************************************************)
MaxBlocks == 2

\* Blocks that feed one another (x to y, y to z), that take away what the
\* next one looks for (x to z), whose AFTER is their BEFORE, and one whose
\* BEFORE is no valid pattern in regex mode
BlockChoices ==
    {BeforeAfterBlock(<<"x">>, <<"y">>), BeforeAfterBlock(<<"y">>, <<"z">>),
     BeforeAfterBlock(<<"x">>, <<"z">>), BeforeAfterBlock(<<"x">>, <<"x">>),
     BeforeAfterBlock(<<"y">>, <<"y">>), BeforeAfterBlock(<<>>, <<>>),
     BeforeAfterBlock(<<"(">>, <<"z">>)}

\* Parameter lists: none, a count, replace_all with and without a count,
\* regex
ParamChoices ==
    {<<>>, K_replace_all :> BoolV(TRUE),
     (K_replace_all :> BoolV(TRUE)) @@ (K_count :> IntV(2)),
     K_regex :> BoolV(TRUE)}
    \cup {K_count :> IntV(n) : n \in 0..MaxCount}

BlocksInit ==
    /\ document = <<>>
    /\ tokens = <<>>
    /\ args \in {c \in Configurations : ~c.interactive /\ ~c.verbose
                                        /\ ~c.no_backup}
    /\ fs \in {<<"a">> :> File(content) : content \in TextsUpTo(MaxBefore)}
    /\ program \in {<<[kind |-> "SearchAndReplace", line |-> 1, column |-> 1,
                       params |-> params, path |-> <<"a">>,
                       blocks |-> blocks]>> :
                        params \in ParamChoices,
                        blocks \in UNION {[1..n -> BlockChoices] :
                                              n \in 1..MaxBlocks}}
    /\ fs0 = fs
    /\ pc = "exec"
    /\ idx = 1
    /\ stats = Stats
    /\ backups = <<>>
    /\ log = <<>>

BlocksNext ==
    \/ ExecuteSearchReplace
    \/ Finish

BlocksSpec == BlocksInit /\ [][BlocksNext]_vars

(***************************************************************************)
(* The run of ASTExecutor.execute over a Program of Run directives, built  *)
(* without the lexer: a command the policy allows and one it denies, with  *)
(* a timeout or a working directory that exists (d), is missing (q) or is  *)
(* a file (a)                                                              *)
(***************************************************************************)
RunCommands == {<<"l","s">>, <<"s","u","d","o"," ","l","s">>}

RunParams ==
    {<<>>, K_timeout :> IntV(5), K_timeout :> StrV(<<"5">>),
     K_cwd :> StrV(<<"d">>), K_cwd :> StrV(<<"q">>), K_cwd :> StrV(<<"a">>),
     K_cwd :> IntV(5)}

RunDirectives ==
    {[kind |-> "Run", line |-> 1, column |-> 1, params |-> params,
      command |-> command] : params \in RunParams, command \in RunCommands}

RunInit ==
    /\ document = <<>>
    /\ tokens = <<>>
    /\ args \in {c \in Configurations : ~c.interactive /\ ~c.verbose
                                        /\ ~c.no_backup}
    /\ fs = SomeFiles
    /\ program \in UNION {[1..n -> RunDirectives] : n \in 1..MaxDirectives}
    /\ fs0 = fs
    /\ pc = "exec"
    /\ idx = 1
    /\ stats = Stats
    /\ backups = <<>>
    /\ log = <<>>

RunNext ==
    \/ ExecuteRun
    \/ Finish

RunSpec == RunInit /\ [][RunNext]_vars

(***************************************************************************)
(* The run of ASTExecutor.execute over a Program of one FIND or one TREE   *)
(* directive with parameters, on the directory p: the files a.txt, b.txt,  *)
(* draft_b.txt and c.md, the directory s with b.txt, the hidden directory  *)
(* .h with a.txt                                                           *)
(***************************************************************************)
ListingFiles ==
    (<<"p">> :> Dir)
    @@ (<<"p", "/", "s">> :> Dir)
    @@ (<<"p", "/", ".", "h">> :> Dir)
    @@ (<<"p", "/", "a", ".", "t", "x", "t">> :> File(<<>>))
    @@ (<<"p", "/", "b", ".", "t", "x", "t">> :> File(<<>>))
    @@ (<<"p", "/", "d", "r", "a", "f", "t", "_", "b", ".", "t", "x", "t">> :> File(<<>>))
    @@ (<<"p", "/", "c", ".", "m", "d">> :> File(<<>>))
    @@ (<<"p", "/", "s", "/", "b", ".", "t", "x", "t">> :> File(<<>>))
    @@ (<<"p", "/", ".", "h", "/", "a", ".", "t", "x", "t">> :> File(<<>>))

ListingRoots == {<<"p">>, <<"p", "/", "s">>, <<"q">>}

\* FIND parameters: the match pattern '.*\.txt$' under both its names, '^b',
\* a pattern that is not valid, a number; include 'b'; exclude 'draft';
\* depth 1
FindParams ==
    {m @@ i @@ e @@ d :
        m \in {<<>>, K_match_pattern :> StrV(<<".", "*", "\\", ".", "t", "x", "t", "$">>),
               K_pattern :> StrV(<<".", "*", "\\", ".", "t", "x", "t", "$">>),
               K_match_pattern :> StrV(<<"^", "b">>),
               K_match_pattern :> StrV(<<"(">>), K_match_pattern :> IntV(5)},
        i \in {<<>>, K_include :> StrV(<<"b">>)},
        e \in {<<>>, K_exclude :> StrV(<<"d", "r", "a", "f", "t">>)},
        d \in {<<>>, K_depth :> IntV(1)}}

TreeParams ==
    {f @@ h @@ d :
        f \in {<<>>, K_include_files :> BoolV(FALSE),
               K_include_files :> BoolV(TRUE)},
        h \in {<<>>, K_show_hidden :> BoolV(TRUE)},
        d \in {<<>>, K_depth :> IntV(1)}}

ListingDirectives ==
    {[kind |-> "Find", line |-> 1, column |-> 1, params |-> params,
      path |-> path] : params \in FindParams, path \in ListingRoots}
    \cup {[kind |-> "Tree", line |-> 1, column |-> 1, params |-> params,
            path |-> path] : params \in TreeParams, path \in ListingRoots}

ListingInit ==
    /\ document = <<>>
    /\ tokens = <<>>
    /\ args \in {c \in Configurations : ~c.interactive /\ ~c.verbose
                                        /\ ~c.no_backup}
    /\ fs = ListingFiles
    /\ program \in {<<directive>> : directive \in ListingDirectives}
    /\ fs0 = fs
    /\ pc = "exec"
    /\ idx = 1
    /\ stats = Stats
    /\ backups = <<>>
    /\ log = <<>>

ListingNext ==
    \/ ExecuteTree
    \/ ExecuteFind
    \/ Finish

ListingSpec == ListingInit /\ [][ListingNext]_vars

(***************************************************************************)
(* The run of ASTExecutor.execute over a Program of one SEARCH_AND_REPLACE *)
(* directive of one block on the file a, whose lines do or do not end in a *)
(* space, with ignore_whitespace                                           *)
(***************************************************************************)
WhitespaceContents ==
    {<<"x", "\n">>, <<"x", " ", "\n">>, <<"x", " ", "\n", "y", "\n">>,
     <<"y", "\n", "x", "\n">>, <<"y", " ", "x", " ", "\n">>, <<"y", "\n">>}

WhitespaceBefores == {<<"x", "\n">>, <<"x", " ", "\n">>, <<"x">>}

WhitespaceAfters == {<<"z", "\n">>, <<"z", " ", "\n">>}

WhitespaceParams ==
    {<<>>, K_ignore_whitespace :> BoolV(TRUE),
     (K_ignore_whitespace :> BoolV(TRUE)) @@ (K_replace_all :> BoolV(TRUE))}

WhitespaceInit ==
    /\ document = <<>>
    /\ tokens = <<>>
    /\ args \in {c \in Configurations : ~c.interactive /\ ~c.verbose
                                        /\ ~c.no_backup}
    /\ fs \in {<<"a">> :> File(content) : content \in WhitespaceContents}
    /\ program \in {<<[kind |-> "SearchAndReplace", line |-> 1, column |-> 1,
                       params |-> params, path |-> <<"a">>,
                       blocks |-> <<BeforeAfterBlock(before, after)>>]>> :
                        params \in WhitespaceParams,
                        before \in WhitespaceBefores,
                        after \in WhitespaceAfters}
    /\ fs0 = fs
    /\ pc = "exec"
    /\ idx = 1
    /\ stats = Stats
    /\ backups = <<>>
    /\ log = <<>>

WhitespaceNext ==
    \/ ExecuteSearchReplace
    \/ Finish

WhitespaceSpec == WhitespaceInit /\ [][WhitespaceNext]_vars

(***************************************************************************)
(* The run of ASTExecutor.execute over a Program of one SEARCH_AND_REPLACE *)
(* directive of one block on the file a in regex mode, with every count    *)
(* from 0 to MaxCount                                                      *)
(***************************************************************************)
RegexDirective(before, after, n) ==
    [ReplaceDirective(before, after, n)
        EXCEPT !.params = (K_regex :> BoolV(TRUE)) @@ (K_count :> IntV(n))]

RegexInit ==
    /\ document = <<>>
    /\ tokens = <<>>
    /\ args \in {c \in Configurations : ~c.interactive /\ ~c.verbose
                                        /\ ~c.no_backup}
    /\ fs \in {<<"a">> :> File(content) : content \in TextsUpTo(MaxContent)}
    /\ program \in {<<RegexDirective(before, after, n)>> :
                        before \in TextsUpTo(MaxBefore) \ {<<>>},
                        after \in {<<>>, <<"z">>},
                        n \in 0..MaxCount}
    /\ fs0 = fs
    /\ pc = "exec"
    /\ idx = 1
    /\ stats = Stats
    /\ backups = <<>>
    /\ log = <<>>

RegexNext ==
    \/ ExecuteSearchReplace
    \/ Finish

RegexSpec == RegexInit /\ [][RegexNext]_vars

(***************************************************************************)
(* The run of parse_kifdiff over documents written piece by piece: a       *)
(* CREATE or an OVERWRITE_FILE whose body is made of lines of text, of     *)
(* lines that hold the sentinel and of markers, with or without its end    *)
(* marker; a SEARCH_AND_REPLACE of one or two blocks with text or a DELETE *)
(* line between its parts                                                  *)
(***************************************************************************)
MaxBody == 2

\* Lines of a body that hold no marker: text, the sentinel before a name
\* that is no marker (DELETE, FOO), before no name, inside a line
ContentLines == {"text_x", "delete_a", "unknown", "kif_bare", "kif_mid"}

MarkerLines ==
    {"begin_before", "end_before", "begin_after", "end_after", "end_create",
     "end_overwrite", "end_sr"}

BodyHeaders == {"hdr_create", "hdr_overwrite"}

EndOf(header) ==
    CASE header = "hdr_create" -> "end_create"
      [] header = "hdr_overwrite" -> "end_overwrite"
      [] header = "hdr_sr" -> "end_sr"

Bodies == UNION {[1..n -> ContentLines \cup MarkerLines] : n \in 0..MaxBody}

BodyDocuments ==
    {<<header>> \o body \o tail :
        header \in BodyHeaders, body \in Bodies,
        tail \in {<<"end_create">>, <<"end_overwrite">>, <<>>}}

\* What stands between the parts of a SEARCH_AND_REPLACE
Gaps == {<<>>, <<"text_x">>, <<"delete_a">>}

BlockBodies ==
    {<<"text_x">>, <<"text_x", "delete_a">>, <<"kif_bare", "text_x">>,
     <<"end_create">>, <<>>}

BlockPieces(before, gap, after) ==
    <<"begin_before">> \o before \o <<"end_before">> \o gap
    \o <<"begin_after">> \o after \o <<"end_after">>

SearchReplaceDocuments ==
    {<<"hdr_sr">> \o first \o BlockPieces(before, second, <<"text_z">>)
     \o third \o more \o <<"end_sr">> :
        first \in Gaps, second \in Gaps, third \in Gaps,
        before \in BlockBodies,
        more \in {<<>>, BlockPieces(<<"text_z">>, <<>>, <<"text_x">>)}}

BodiesInit ==
    /\ document \in BodyDocuments \cup SearchReplaceDocuments
    /\ args \in {c \in Configurations : ~c.interactive /\ ~c.verbose
                                        /\ ~c.no_backup /\ ~c.dry_run}
    /\ fs = SomeFiles
    /\ fs0 = fs
    /\ pc = "start"
    /\ tokens = <<>>
    /\ program = <<>>
    /\ idx = 1
    /\ stats = Stats
    /\ backups = <<>>
    /\ log = <<>>

BodiesNext ==
    \/ TokenizeDocument
    \/ ParseDocument
    \/ ExecuteCreate
    \/ ExecuteOverwrite
    \/ ExecuteSearchReplace
    \/ ExecuteDelete
    \/ Finish

BodiesSpec == BodiesInit /\ [][BodiesNext]_vars

(***************************************************************************)
(* Rollback of a session (main.py --rollback, utils/backup.py              *)
(* rollback_backups): the manifest of the session is read, and every path  *)
(* it names is written again from one of its backup files.  backups is the *)
(* manifest with its backup files: one entry per backup_file call, oldest  *)
(* first, since lines 41-46 give a backup whose name is taken a name with  *)
(* a counter                                                               *)
(***************************************************************************)

\* The keys of manifest.json: the paths in the order the session first
\* backed them up
RECURSIVE ManifestPaths(_)
ManifestPaths(manifest) ==
    IF manifest = <<>> THEN <<>>
    ELSE LET rest == ManifestPaths(SubSeq(manifest, 1, Len(manifest) - 1))
             original_path == manifest[Len(manifest)].path
         IN  IF \E i \in 1..Len(rest) : rest[i] = original_path
             THEN rest
             ELSE Append(rest, original_path)

\* manifest[original_path]: the backups of one path, oldest first
BackupsOf(manifest, original_path) ==
    SelectSeq(manifest, LAMBDA e : e.path = original_path)

\* Line 148: latest_backup = backups[-1]["backup"]
latest_backup(manifest, original_path) ==
    BackupsOf(manifest, original_path)[Len(BackupsOf(manifest, original_path))]

\* Lines 154-167: the directory of the path is made, the path is written
\* from the backup; an IOError is caught and the loop goes on
restore_file(W, original_path, content) ==
    Caught(Then(IF dirname(original_path) # <<>>
                THEN makedirs(W, dirname(original_path))
                ELSE W,
                LAMBDA V : open_write(V, original_path, content)))

\* The loop of lines 143-167 over the first n paths of the manifest
RECURSIVE restore_paths(_, _, _)
restore_paths(W, manifest, n) ==
    IF n = 0 THEN W
    ELSE restore_file(restore_paths(W, manifest, n - 1),
                      ManifestPaths(manifest)[n],
                      latest_backup(manifest, ManifestPaths(manifest)[n]).content)

rollback_backups(W, manifest) ==
    restore_paths(W, manifest, Len(ManifestPaths(manifest)))

\* main.py 119-121: the program is run again with --rollback after the
\* session has ended, and the most recent session is this one
Rollback ==
    /\ pc = "done"
    /\ pc' = "rolled_back"
    /\ fs' = rollback_backups([fs |-> fs, stats |-> stats,
                               backups |-> backups, events |-> <<>>,
                               exc |-> ""], backups).fs
    /\ UNCHANGED <<document, args, tokens, program, idx, fs0, stats, backups,
                   log>>

\* Sessions of one to MaxDirectives directives on the file a, each of which
\* changes or removes it: two replacements, an overwrite and a delete
OverwriteOfA(content) ==
    [kind |-> "OverwriteFile", line |-> 1, column |-> 1, params |-> <<>>,
     path |-> <<"a">>, content |-> content]

DeleteOfA ==
    [kind |-> "Delete", line |-> 1, column |-> 1, params |-> <<>>,
     path |-> <<"a">>]

MutatingDirectives ==
    {ReplaceDirective(<<"x">>, <<"z">>, 1),
     ReplaceDirective(<<"y">>, <<"z">>, 1),
     OverwriteOfA(<<"y">>),
     DeleteOfA}

RollbackInit ==
    /\ document = <<>>
    /\ tokens = <<>>
    /\ args \in {c \in Configurations : ~c.interactive /\ ~c.verbose
                                        /\ ~c.no_backup /\ ~c.dry_run}
    /\ fs \in {<<"a">> :> File(content) :
                   content \in TextsUpTo(MaxBefore) \ {<<>>}}
    /\ program \in UNION {[1..n -> MutatingDirectives] : n \in 1..MaxDirectives}
    /\ fs0 = fs
    /\ pc = "exec"
    /\ idx = 1
    /\ stats = Stats
    /\ backups = <<>>
    /\ log = <<>>

RollbackNext ==
    \/ ExecuteSearchReplace
    \/ ExecuteOverwrite
    \/ ExecuteDelete
    \/ Finish
    \/ Rollback

RollbackSpec == RollbackInit /\ [][RollbackNext]_vars

(***************************************************************************)
(* Properties.  An entry of log is one executed directive; the properties  *)
(* of a handler are stated on the entries of log.                          *)
(***************************************************************************)
Entries == 1..Len(log)

Directive(k) == program[log[k].directive]

\* By how much the directive of entry k has changed a counter
Delta(k, counter) ==
    log[k].after.stats[counter] - log[k].before.stats[counter]

\* The counters other than those of the set keep their values over entry k
OnlyCounted(k, counted) ==
    \A c \in Counters \ counted : Delta(k, c) = 0

\* Entry k has left the filesystem and the backups as they were
Untouched(k) ==
    /\ log[k].after.fs = log[k].before.fs
    /\ log[k].after.backups = log[k].before.backups

\* The calls that change the filesystem
Mutations == {"write", "remove", "move", "makedirs"}

Calls(k, ops) == {i \in 1..Len(log[k].events) : log[k].events[i].op \in ops}

\* Nothing was executed: no handler has run, the filesystem is the one the
\* run started from, no backup exists
NothingExecuted == log = <<>> /\ fs = fs0 /\ backups = <<>>

\* C1: when tokenizing or parsing the document fails, no directive of the
\* document is executed (nothing created, written, moved or deleted, no
\* backup taken), also when well-formed directives precede the failure
C1_FailedDocumentExecutesNothing ==
    /\ pc = "aborted" => NothingExecuted
    /\ Malformed(document) => pc \notin {"exec", "done"} /\ NothingExecuted

\* A CREATE that would succeed, then a SEARCH_AND_REPLACE without its AFTER
\* block: the run has ended in the parser
C1_Witness ==
    /\ pc = "aborted"
    /\ document = <<"create_eb", "sr_no_after">>
    /\ tokens # <<>>
    /\ stats.failed = 1

\* C2: an exception a handler lets through is caught by the dispatcher and
\* counted in stats.failed, and the loop goes on: every directive of the
\* program is executed whatever the earlier handlers raised
C2_HandlerErrorDoesNotStopRun ==
    /\ \A k \in Entries :
         log[k].raised # "" => Delta(k, "failed") = 1 /\ OnlyCounted(k, {"failed"})
    /\ pc = "exec" => idx = Len(log) + 1
    /\ pc = "done" => Len(log) = Len(program)

\* The handler of the first of two directives has raised, the second has
\* been executed
C2_Witness ==
    /\ pc = "done"
    /\ Len(log) = 2
    /\ log[1].raised = "EOFError"
    /\ log[2].directive = 2
    /\ stats.failed >= 1

\* C3: the Program holds the directives in the order of the document, and
\* the dispatcher hands them to their handlers in that order, each once
C3_DocumentOrderIsExecutionOrder ==
    pc \in {"exec", "done"} =>
        /\ Len(program) = Len(document)
        /\ \A i \in 1..Len(program) :
             program[i].kind = PieceKind(document[i])
        /\ \A i, j \in 1..Len(program) :
             i < j => program[i].line < program[j].line
        /\ \A k \in Entries : log[k].directive = k
        /\ Len(log) <= Len(program)

\* Two directives of different variants have both been executed
C3_Witness ==
    /\ pc = "done"
    /\ Len(log) = 2
    /\ program[1].kind # program[2].kind
    /\ log[1].after.fs # log[1].before.fs

\* Every BEFORE text of the directive of entry k occurs in the file, which
\* under dry-run is what every block is matched against
AllBlocksMatch(k) ==
    /\ isfile(log[k].before.fs, Directive(k).path)
    /\ Directive(k).blocks # <<>>
    /\ \A b \in 1..Len(Directive(k).blocks) :
         Contains(log[k].before.fs[Directive(k).path].content,
                  Directive(k).blocks[b].before)

\* C4: under dry-run a SEARCH_AND_REPLACE whose blocks all match writes
\* nothing: no write to the file, no backup, skipped + 1, modified as it was
C4_DryRunSearchReplaceWritesNothing ==
    \A k \in Entries :
        (/\ args.dry_run
         /\ Directive(k).kind = "SearchAndReplace"
         /\ AllBlocksMatch(k)) =>
            /\ Calls(k, {"write", "backup"}) = {}
            /\ Untouched(k)
            /\ Delta(k, "skipped") = 1
            /\ Delta(k, "modified") = 0

\* C5: under dry-run CREATE and OVERWRITE_FILE write nothing: the file and
\* the directories above it are as they were, no backup is taken, skipped
\* + 1 and no other counter changes
C5_DryRunCreateOverwriteWriteNothing ==
    \A k \in Entries :
        (args.dry_run /\ Directive(k).kind \in {"Create", "OverwriteFile"}) =>
            /\ Untouched(k)
            /\ log[k].events = <<>>
            /\ Delta(k, "skipped") = 1
            /\ OnlyCounted(k, {"skipped"})

\* A dry run of a CREATE below a directory that does not exist, then of an
\* OVERWRITE_FILE of a file that exists
C5_Witness ==
    /\ pc = "done"
    /\ args.dry_run
    /\ document = <<"create_eb", "overwrite_a">>
    /\ isfile(fs0, <<"a">>)
    /\ stats.skipped = 2

\* The path whose pre-image the directive puts at risk
Affected(directive) ==
    IF directive.kind = "Move" THEN directive.source ELSE directive.path

\* The directives the backup discipline covers
Covered(k) ==
    \/ Directive(k).kind \in {"Delete", "SearchAndReplace"}
    \/ /\ Directive(k).kind = "Move"
       /\ isfile(log[k].before.fs, Directive(k).source)
    \/ /\ Directive(k).kind = "OverwriteFile"
       /\ exists(log[k].before.fs, Directive(k).path)

\* C6: with backups enabled and dry-run off, a Delete, a Move of a regular
\* file, an OverwriteFile of an existing target and a SearchAndReplace call
\* the backup of the affected path before any call that changes the
\* filesystem
C6_BackupBeforeMutation ==
    (~args.no_backup /\ ~args.dry_run) =>
        \A k \in Entries :
            Covered(k) =>
                \A j \in Calls(k, Mutations) :
                    \E i \in 1..(j - 1) :
                        log[k].events[i] =
                            [op |-> "backup", path |-> Affected(Directive(k))]

\* An OVERWRITE_FILE of an existing file and then its DELETE, both with a
\* backup that holds the content the file had
C6_Witness ==
    /\ pc = "done"
    /\ ~args.no_backup /\ ~args.dry_run
    /\ document = <<"overwrite_a", "delete_a">>
    /\ Calls(1, {"write"}) # {} /\ Calls(2, {"remove"}) # {}
    /\ Len(backups) = 2
    /\ ~exists(fs, <<"a">>)

\* C7: a DELETE of a path that does not exist is skipped + 1 and never a
\* failure, in every configuration, and the filesystem stays as it was
C7_DeleteMissingIsSkipped ==
    \A k \in Entries :
        (/\ Directive(k).kind = "Delete"
         /\ ~exists(log[k].before.fs, Directive(k).path)) =>
            /\ Delta(k, "skipped") = 1
            /\ OnlyCounted(k, {"skipped"})
            /\ Untouched(k)
            /\ log[k].raised = ""

\* In interactive mode a DELETE removes the file and a second DELETE of the
\* same path finds nothing
C7_Witness ==
    /\ pc = "done"
    /\ args.interactive /\ ~args.dry_run
    /\ document = <<"delete_a", "delete_a">>
    /\ stats.deleted = 1
    /\ stats.skipped = 1

\* The directive of entry k is a Move whose source, or a SearchAndReplace
\* whose target, does not exist
NotFound(k) ==
    \/ /\ Directive(k).kind = "Move"
       /\ ~exists(log[k].before.fs, Directive(k).source)
    \/ /\ Directive(k).kind = "SearchAndReplace"
       /\ ~exists(log[k].before.fs, Directive(k).path)

\* C8: a Move with a missing source and a SearchAndReplace with a missing
\* target are failures: failed + 1, skipped and modified as they were, the
\* filesystem unchanged, under dry-run as well
C8_MissingSourceOrTargetFails ==
    \A k \in Entries :
        NotFound(k) =>
            /\ Delta(k, "failed") = 1
            /\ Delta(k, "skipped") = 0
            /\ Delta(k, "modified") = 0
            /\ Untouched(k)

\* A dry run of a MOVE and a SEARCH_AND_REPLACE on an empty filesystem
C8_Witness ==
    /\ pc = "done"
    /\ args.dry_run
    /\ document = <<"move_a_eb", "sr_a">>
    /\ fs0 = NoFiles
    /\ stats.failed = 2
    /\ stats.skipped = 0

\* C9: in interactive mode CREATE and OVERWRITE_FILE prompt before they
\* write, and on an answer other than y nothing is written and skipped + 1
C9_InteractiveCreateOverwritePrompt ==
    \A k \in Entries :
        (/\ args.interactive /\ ~args.dry_run
         /\ Directive(k).kind \in {"Create", "OverwriteFile"}) =>
            /\ \A j \in Calls(k, Mutations) :
                 \E i \in 1..(j - 1) : log[k].events[i].op = "prompt"
            /\ (log[k].answers # <<>> /\ log[k].answers[1] = "n") =>
                 /\ log[k].after.fs = log[k].before.fs
                 /\ Delta(k, "skipped") = 1

\* The offsets of the occurrences of old in t that a scan from offset i to
\* the right finds, none overlapping the one before it (an occurrence of the
\* empty text lies before each character and at the end)
RECURSIVE ScanFrom(_, _, _)
ScanFrom(t, old, i) ==
    IF i + Len(old) > Len(t) THEN <<>>
    ELSE IF StartsWith(t, old, i)
         THEN <<i>> \o ScanFrom(t, old, i + Max(Len(old), 1))
         ELSE ScanFrom(t, old, i + 1)

\* t from offset from on, with the occurrences of old at the offsets
\* replaced by new
RECURSIVE Splice(_, _, _, _, _)
Splice(t, old, new, offsets, from) ==
    IF offsets = <<>> THEN Slice(t, from, Len(t))
    ELSE Slice(t, from, Head(offsets)) \o new
         \o Splice(t, old, new, Tail(offsets), Head(offsets) + Len(old))

\* The replacement entry k is about: literal mode, replace_all false, one
\* block, count n with 1 <= n <= occurrences
CountedLiteral(k) ==
    /\ Directive(k).kind = "SearchAndReplace"
    /\ DOMAIN Directive(k).params = {K_count}
    /\ Len(Directive(k).blocks) = 1
    /\ isfile(log[k].before.fs, Directive(k).path)
    /\ Directive(k).params[K_count].v >= 1
    /\ Directive(k).params[K_count].v
           <= Len(ScanFrom(log[k].before.fs[Directive(k).path].content,
                           Directive(k).blocks[1].before, 0))

\* The file of entry k holds its content with the first n occurrences of
\* BEFORE replaced by AFTER, and after the n-th replaced span the text the
\* content had there
FirstReplaced(content, before, after, n, result) ==
    /\ result = Splice(content, before, after,
                       SubSeq(ScanFrom(content, before, 0), 1, n), 0)
    /\ LET tail == Slice(content,
                         ScanFrom(content, before, 0)[n] + Len(before),
                         Len(content))
       IN  Slice(result, Len(result) - Len(tail), Len(result)) = tail

\* C10: literal mode, replace_all false, count = N with 1 <= N <= the
\* number of non-overlapping occurrences of BEFORE: exactly the first N
\* occurrences of a left-to-right scan are replaced, and the text after the
\* N-th replaced span is the original text after it
C10_FirstNOccurrencesReplaced ==
    \A k \in Entries :
        CountedLiteral(k) =>
            FirstReplaced(log[k].before.fs[Directive(k).path].content,
                          Directive(k).blocks[1].before,
                          Directive(k).blocks[1].after,
                          Directive(k).params[K_count].v,
                          log[k].after.fs[Directive(k).path].content)

\* The same on the directives whose BEFORE text is not empty
NonEmptyBeforeFirstNReplaced ==
    \A k \in Entries :
        (CountedLiteral(k) /\ Directive(k).blocks[1].before # <<>>) =>
            FirstReplaced(log[k].before.fs[Directive(k).path].content,
                          Directive(k).blocks[1].before,
                          Directive(k).blocks[1].after,
                          Directive(k).params[K_count].v,
                          log[k].after.fs[Directive(k).path].content)

\* The pieces of t that lie between the occurrences of old at the offsets
RECURSIVE KeptPieces(_, _, _, _)
KeptPieces(t, old, offsets, from) ==
    IF offsets = <<>> THEN <<Slice(t, from, Len(t))>>
    ELSE <<Slice(t, from, Head(offsets))>>
         \o KeptPieces(t, old, Tail(offsets), Head(offsets) + Len(old))

\* The replacement entry k is about: literal mode, replace_all true, one
\* block whose AFTER differs from its BEFORE and does not contain it
ReplaceAllLiteral(k) ==
    /\ Directive(k).kind = "SearchAndReplace"
    /\ DOMAIN Directive(k).params = {K_replace_all}
    /\ Truthy(Directive(k).params[K_replace_all])
    /\ Len(Directive(k).blocks) = 1
    /\ isfile(log[k].before.fs, Directive(k).path)
    /\ Directive(k).blocks[1].before # Directive(k).blocks[1].after
    /\ ~Contains(Directive(k).blocks[1].after, Directive(k).blocks[1].before)

\* C11 as stated: literal mode, replace_all true, BEFORE different from
\* AFTER and not contained in it: the file holds no occurrence of BEFORE
\* after the replacement
C11_NoOccurrenceLeft ==
    \A k \in Entries :
        ReplaceAllLiteral(k) =>
            ~Contains(log[k].after.fs[Directive(k).path].content,
                      Directive(k).blocks[1].before)

\* C11 as amended: every occurrence of BEFORE that a left-to-right scan of
\* the content finds is replaced, no piece of the content kept between them
\* holds BEFORE, and a BEFORE of one character does not occur in the output
C11_ScannedOccurrencesReplaced ==
    \A k \in Entries :
        ReplaceAllLiteral(k) =>
            LET content == log[k].before.fs[Directive(k).path].content
                before == Directive(k).blocks[1].before
                after == Directive(k).blocks[1].after
                result == log[k].after.fs[Directive(k).path].content
                offsets == ScanFrom(content, before, 0)
                kept == KeptPieces(content, before, offsets, 0)
            IN  /\ result = Splice(content, before, after, offsets, 0)
                /\ \A i \in 1..Len(kept) : ~Contains(kept[i], before)
                /\ Len(before) = 1 => ~Contains(result, before)

\* A replace_all that has replaced two occurrences or more
C11_Witness ==
    /\ Len(log) = 1
    /\ ReplaceAllLiteral(1)
    /\ Len(ScanFrom(log[1].before.fs[<<"a">>].content,
                    Directive(1).blocks[1].before, 0)) >= 2
    /\ Delta(1, "modified") = 1

\* The occurrences of the BEFORE text of a block that one application of it
\* replaces: all of them under replace_all, the first count otherwise
Replaced(content, block, params) ==
    LET offsets == ScanFrom(content, block.before, 0)
    IN  IF Truthy(ParamGet(params, K_replace_all, BoolV(FALSE))) THEN offsets
        ELSE SubSeq(offsets, 1,
                    Min(CountValue(ParamGet(params, K_count, IntV(1))),
                        Len(offsets)))

\* apply(B, content): the content with those occurrences replaced
Applied(content, block, params) ==
    Splice(content, block.before, block.after,
           Replaced(content, block, params), 0)

\* The BEFORE text of the block is found in the content
Occurs(content, block, params) ==
    /\ ~(Truthy(ParamGet(params, K_regex, BoolV(FALSE)))
         /\ InvalidPattern(block.before))
    /\ ScanFrom(content, block.before, 0) # <<>>

\* The blocks from the k-th on, each against the output of the one before
\* it (under dry-run no block changes the content): the index of the first
\* block that is not found (0 when all are found) and the content reached
RECURSIVE Sequential(_, _, _, _, _)
Sequential(content, blocks, params, dry, k) ==
    IF k > Len(blocks) THEN [missing |-> 0, content |-> content]
    ELSE IF ~Occurs(content, blocks[k], params)
    THEN [missing |-> k, content |-> content]
    ELSE Sequential(IF dry THEN content
                    ELSE Applied(content, blocks[k], params),
                    blocks, params, dry, k + 1)

\* Entry k is a SEARCH_AND_REPLACE of a file that exists
OnFile(k) ==
    /\ Directive(k).kind = "SearchAndReplace"
    /\ isfile(log[k].before.fs, Directive(k).path)

InOrder(k) ==
    Sequential(log[k].before.fs[Directive(k).path].content,
               Directive(k).blocks, Directive(k).params, args.dry_run, 1)

\* C12: the blocks of one SEARCH_AND_REPLACE are applied one after the
\* other, each to the output of the one before it: with every block found
\* in that output the file holds apply(Bn, ... apply(B1, original)), and a
\* block that is not found in that output fails the directive, whatever the
\* original content held
C12_BlocksAppliedInSequence ==
    \A k \in Entries :
        (OnFile(k) /\ ~args.dry_run /\ ~args.interactive) =>
            IF InOrder(k).missing = 0
            THEN /\ log[k].after.fs[Directive(k).path].content
                        = InOrder(k).content
                 /\ Delta(k, "modified") = 1
            ELSE /\ log[k].after.fs = log[k].before.fs
                 /\ Delta(k, "failed") = 1

\* The second block has matched text that only the first block's AFTER
\* brought in
C12_Witness ==
    /\ Len(log) = 1
    /\ OnFile(1) /\ ~args.dry_run
    /\ Len(Directive(1).blocks) = 2
    /\ ~Contains(log[1].before.fs[<<"a">>].content,
                 Directive(1).blocks[2].before)
    /\ Directive(1).blocks[2].before # Directive(1).blocks[2].after
    /\ InOrder(1).missing = 0
    /\ Delta(1, "modified") = 1

C20_MissingBlockEndsDirective ==
    \A k \in Entries :
        (OnFile(k) /\ ~args.interactive /\ InOrder(k).missing > 0) =>
            /\ Cardinality(Calls(k, {"block"})) = InOrder(k).missing
            /\ Delta(k, "failed") = 1
            /\ OnlyCounted(k, {"failed"})
            /\ Calls(k, {"write", "backup"}) = {}
            /\ Untouched(k)

\* The first of two blocks was not found and the second, which the file
\* holds, was not tried
C20_Witness ==
    /\ Len(log) = 1
    /\ OnFile(1)
    /\ Len(Directive(1).blocks) = 2
    /\ InOrder(1).missing = 1
    /\ Contains(log[1].before.fs[<<"a">>].content,
                Directive(1).blocks[2].before)
    /\ Cardinality(Calls(1, {"block"})) = 1
    /\ stats.failed = 1

\* C14: a SearchAndReplace that the parser accepts has one block at least;
\* a header followed directly by END_SEARCH_AND_REPLACE fails the parse and
\* no directive of the document reaches the dispatcher
C14_ParsedSearchReplaceHasBlock ==
    /\ pc \in {"exec", "done"} =>
         \A i \in 1..Len(program) :
             program[i].kind = "SearchAndReplace" =>
                 Len(program[i].blocks) >= 1
    /\ (\E i \in 1..Len(document) : document[i] = "sr_empty") =>
         pc \notin {"exec", "done"} /\ log = <<>>

\* C15: each of the nine top-level names gives its directive-name token
\* and parses to its directive variant: a document written with them is
\* tokenized and parsed, and the Program holds the variant of each
C15_NineNamesAccepted ==
    /\ pc # "aborted"
    /\ pc = "lexed" =>
         Cardinality({i \in 1..Len(tokens) : tokens[i].type = "DIRECTIVE_START"})
             >= Len(document)
    /\ pc \in {"exec", "done"} =>
         /\ Len(program) = Len(document)
         /\ \A i \in 1..Len(program) :
              program[i].kind = PieceKind(document[i])

\* The directive of entry k is a Move of a regular file to a destination
\* below a directory that does not exist, and the move is carried out: no
\* dry-run, and the answer y at the prompt of interactive mode
MoveBelowMissing(k) ==
    /\ Directive(k).kind = "Move"
    /\ isfile(log[k].before.fs, Directive(k).source)
    /\ dirname(Directive(k).dest) # <<>>
    /\ ~exists(log[k].before.fs, dirname(Directive(k).dest))
    /\ ~args.dry_run
    /\ args.interactive => log[k].answers = <<"y">>

\* C16: such a Move creates the directories above the destination, leaves
\* nothing at the source, leaves at the destination the content the source
\* had, and counts modified + 1 and nothing else
C16_MoveCreatesParents ==
    \A k \in Entries :
        MoveBelowMissing(k) =>
            /\ \A dir \in Ancestors(dirname(Directive(k).dest)) :
                 isdir(log[k].after.fs, dir)
            /\ ~exists(log[k].after.fs, Directive(k).source)
            /\ isfile(log[k].after.fs, Directive(k).dest)
            /\ log[k].after.fs[Directive(k).dest].content
                   = log[k].before.fs[Directive(k).source].content
            /\ Delta(k, "modified") = 1
            /\ OnlyCounted(k, {"modified"})

\* The file a has been moved to e/b, where no directory e was, after the
\* answer y
C16_Witness ==
    /\ pc = "done"
    /\ args.interactive
    /\ document = <<"move_a_eb">>
    /\ MoveBelowMissing(1)
    /\ isfile(fs, <<"e", "/", "b">>)
    /\ stats.modified = 1

\* C17: every outcome of a Run directive changes a counter of the stats and
\* appends one entry to the report buffer, and no exception leaves the
\* handler
C17_RunOutcomeCountedAndReported ==
    \A k \in Entries :
        Directive(k).kind = "Run" =>
            /\ \E c \in Counters : Delta(k, c) # 0
            /\ Len(log[k].after.stats.clipboard_buffer)
                   = Len(log[k].before.stats.clipboard_buffer) + 1
            /\ log[k].raised = ""

\* a comes before b where a walk visits the entries of each directory in
\* sorted order: the order of the paths component by component
RECURSIVE PartsLess(_, _)
PartsLess(a, b) ==
    IF a = <<>> THEN b # <<>>
    ELSE IF b = <<>> THEN FALSE
    ELSE IF Head(a) = Head(b) THEN PartsLess(Tail(a), Tail(b))
    ELSE StrLess(Head(a), Head(b))

\* The directive of entry k is a Find that searches: its directory exists,
\* its patterns are valid, no dry-run
Searching(k) ==
    /\ Directive(k).kind = "Find"
    /\ isdir(log[k].before.fs, Directive(k).path)
    /\ \A key \in DOMAIN Directive(k).params \ {K_depth} :
         compile_pattern(Directive(k).params[key]) = ""
    /\ ~args.dry_run

\* The pattern given under one of the keys, <<>> when none is
Given1(k, keys) ==
    IF \E key \in keys : key \in DOMAIN Directive(k).params
    THEN Directive(k).params[CHOOSE key \in keys :
                                 key \in DOMAIN Directive(k).params].v
    ELSE <<>>

\* The files the claim describes for the Find of entry k
Wanted(k) ==
    {q \in DOMAIN log[k].before.fs :
        /\ isfile(log[k].before.fs, q)
        /\ IsUnder(q, Directive(k).path)
        /\ \A i \in 1..(Len(RelParts(q, Directive(k).path)) - 1) :
             ~Hidden(RelParts(q, Directive(k).path)[i])
        /\ K_depth \in DOMAIN Directive(k).params =>
             Len(RelParts(q, Directive(k).path)) <= Directive(k).params[K_depth].v
        /\ Given1(k, {K_match_pattern, K_pattern}) # <<>> =>
             Search(Given1(k, {K_match_pattern, K_pattern}), basename(q))
        /\ Given1(k, {K_include}) # <<>> =>
             Search(Given1(k, {K_include}), basename(q))
        /\ Given1(k, {K_exclude}) # <<>> =>
             ~Search(Given1(k, {K_exclude}), basename(q))}

\* What the Find of entry k has put in the report buffer: the files of its
\* entry, <<>> when it has appended none
Found(k) ==
    IF Len(log[k].after.stats.clipboard_buffer)
           = Len(log[k].before.stats.clipboard_buffer)
    THEN <<>>
    ELSE log[k].after.stats.clipboard_buffer[
             Len(log[k].after.stats.clipboard_buffer)].body

\* C18: Find reports exactly the files below its directory that are reached
\* through no hidden directory (and within the depth, when one is given),
\* whose name matches the match pattern, matches the include pattern when
\* one is given and does not match the exclude pattern when one is given,
\* each once, in the order of a walk that visits the entries of each
\* directory sorted
C18_FindReportsMatchingFilesInOrder ==
    \A k \in Entries :
        Searching(k) =>
            /\ {Found(k)[i] : i \in 1..Len(Found(k))} = Wanted(k)
            /\ \A i, j \in 1..Len(Found(k)) :
                 i < j => PartsLess(Split(Found(k)[i], "/"),
                                    Split(Found(k)[j], "/"))

\* match '.*\.txt$' with exclude 'draft' on p: a.txt, b.txt and s/b.txt, in
\* that order
C18_Witness ==
    /\ Len(log) = 1
    /\ Searching(1)
    /\ K_exclude \in DOMAIN Directive(1).params
    /\ Len(Found(1)) = 3
    /\ basename(Found(1)[1]) = <<"a", ".", "t", "x", "t">>
    /\ basename(Found(1)[2]) = <<"b", ".", "t", "x", "t">>
    /\ Found(1)[3] = <<"p", "/", "s", "/", "b", ".", "t", "x", "t">>

\* C19: with include_files=false the tree that is rendered holds directory
\* entries only, and with include_files=true, or not given, the files are
\* listed
C19_TreeIncludeFiles ==
    \A k \in Entries :
        (/\ Directive(k).kind = "Tree"
         /\ isdir(log[k].before.fs, Directive(k).path)
         /\ ~args.dry_run) =>
            LET listing == Found(k)
                files == {q \in listing : isfile(log[k].before.fs, q)}
            IN  IF Truthy(ParamGet(Directive(k).params, K_include_files,
                                   BoolV(TRUE)))
                THEN \A q \in DOMAIN log[k].before.fs :
                         (isfile(log[k].before.fs, q)
                          /\ dirname(q) = Directive(k).path
                          /\ ~Hidden(basename(q))) => q \in files
                ELSE files = {}

\* C21: a SEARCH_AND_REPLACE one of whose blocks is not found in the output
\* of the blocks before it leaves the filesystem as it was, also when
\* earlier blocks were found and applied in memory, takes no backup, makes
\* no write, and counts one failure
C21_FailedBlockLeavesFileAndBackups ==
    \A k \in Entries :
        (OnFile(k) /\ InOrder(k).missing # 0) =>
            /\ Untouched(k)
            /\ Calls(k, Mutations \cup {"backup"}) = {}
            /\ Delta(k, "failed") = 1 /\ OnlyCounted(k, {"failed"})

\* The first block was found and has changed the content in memory, the
\* second was not found
C21_Witness ==
    /\ Len(log) = 1
    /\ OnFile(1) /\ ~args.dry_run /\ ~args.no_backup
    /\ InOrder(1).missing = 2
    /\ InOrder(1).content # log[1].before.fs[<<"a">>].content
    /\ Delta(1, "failed") = 1

\* The text with the whitespace at the end of each of its lines taken away
\* (the text is cut at its line feeds, each piece loses the spaces and tabs
\* it ends with)
RECURSIVE LinesStripped(_)
LinesStripped(t) ==
    IF \E i \in 1..Len(t) : t[i] = "\n"
    THEN LET n == CHOOSE i \in 1..Len(t) :
                      t[i] = "\n" /\ \A j \in 1..(i - 1) : t[j] # "\n"
         IN  RStrip(SubSeq(t, 1, n - 1)) \o <<"\n">>
             \o LinesStripped(SubSeq(t, n + 1, Len(t)))
    ELSE RStrip(t)

\* Entry k is a literal SEARCH_AND_REPLACE with ignore_whitespace, one
\* replacement, whose BEFORE equals a part of the file once both are
\* stripped
StrippedMatch(k) ==
    /\ OnFile(k) /\ ~args.dry_run /\ ~args.interactive
    /\ Truthy(ParamGet(Directive(k).params, K_ignore_whitespace, BoolV(FALSE)))
    /\ DOMAIN Directive(k).params = {K_ignore_whitespace}
    /\ LET content == LinesStripped(log[k].before.fs[Directive(k).path].content)
           before == LinesStripped(Directive(k).blocks[1].before)
       IN  \E i \in 0..Len(content) :
               SubSeq(content, i + 1, i + Len(before)) = before

\* C22: with ignore_whitespace in literal mode, a BEFORE that equals a part
\* of the file once the whitespace at the end of every line of both is
\* stripped is found, and the file is written with a part of it that
\* strips to the stripped BEFORE replaced by the AFTER text as given
C22_StrippedMatchIsReplaced ==
    \A k \in Entries :
        StrippedMatch(k) =>
            LET content == log[k].before.fs[Directive(k).path].content
                before == LinesStripped(Directive(k).blocks[1].before)
                after == Directive(k).blocks[1].after
                result == log[k].after.fs[Directive(k).path].content
            IN  /\ Delta(k, "modified") = 1
                /\ \E i \in 0..Len(content), j \in 0..Len(content) :
                       /\ i <= j
                       /\ LinesStripped(SubSeq(content, i + 1, j)) = before
                       /\ result = SubSeq(content, 1, i) \o after
                                       \o SubSeq(content, j + 1, Len(content))

\* Entry k is a SEARCH_AND_REPLACE in regex mode, without replace_all, with
\* a count, whose pattern is found in the file, dry-run off
RegexCounted(k) ==
    /\ OnFile(k) /\ ~args.dry_run /\ ~args.interactive
    /\ Truthy(ParamGet(Directive(k).params, K_regex, BoolV(FALSE)))
    /\ ~Truthy(ParamGet(Directive(k).params, K_replace_all, BoolV(FALSE)))
    /\ K_count \in DOMAIN Directive(k).params
    /\ Len(Directive(k).blocks) = 1
    /\ Occurs(log[k].before.fs[Directive(k).path].content,
              Directive(k).blocks[1], Directive(k).params)

\* C23: in regex mode without replace_all, for every count, 0 included, the
\* first count matches from the left (all of them when there are fewer) are
\* substituted and the rest of the content is as it was
C23_RegexReplacesFirstCount ==
    \A k \in Entries :
        RegexCounted(k) =>
            log[k].after.fs[Directive(k).path].content
                = Applied(log[k].before.fs[Directive(k).path].content,
                          Directive(k).blocks[1], Directive(k).params)

\* The document is a header, a body and the end marker of the header; the
\* body holds no marker
BodyOf(doc) == SubSeq(doc, 2, Len(doc) - 1)

ContentBodied(doc) ==
    /\ Len(doc) >= 3
    /\ doc[1] \in BodyHeaders
    /\ doc[Len(doc)] = EndOf(doc[1])
    /\ \A i \in 2..(Len(doc) - 1) : doc[i] \in ContentLines

\* A line of the pieces holds the sentinel
HoldsSentinel(pieces) ==
    \E i \in 1..Len(pieces) : Find(PieceText(pieces[i]), Sentinel) # -1

FirstIndex(doc, piece) ==
    CHOOSE i \in 1..Len(doc) :
        doc[i] = piece /\ \A j \in 1..(i - 1) : doc[j] # piece

\* The lines of the first BEFORE block of a SEARCH_AND_REPLACE document
FirstBefore(doc) ==
    SubSeq(doc, FirstIndex(doc, "begin_before") + 1,
           FirstIndex(doc, "end_before") - 1)

TokenTypes == [i \in 1..Len(tokens) |-> tokens[i].type]

\* C24: a sentinel in a body that is followed by no marker name gives no
\* directive token and is kept in the content: the tokens of the document
\* are those of the header line, one content token holding the body
\* character for character, and the end marker at the line and column at
\* which it stands in the text
C24_SentinelInBodyIsContent ==
    /\ (pc # "start" /\ ContentBodied(document)
        /\ HoldsSentinel(BodyOf(document))) =>
           /\ TokenTypes
                = <<"DIRECTIVE_START",
                    IF document[1] = "hdr_create" THEN "CREATE"
                    ELSE "OVERWRITE_FILE",
                    "PATH", "NEWLINE", "CONTENT", "DIRECTIVE_START",
                    IF document[1] = "hdr_create" THEN "END_CREATE"
                    ELSE "END_OVERWRITE_FILE",
                    "NEWLINE", "EOF">>
           /\ tokens[5].value = Render(BodyOf(document))
           /\ tokens[6].line = Len(document) /\ tokens[6].column = 1
    /\ (pc # "start" /\ document[1] = "hdr_sr"
        /\ (\A i \in 1..Len(FirstBefore(document)) :
               FirstBefore(document)[i] \in ContentLines)
        /\ HoldsSentinel(FirstBefore(document))) =>
           \E i \in 3..(Len(tokens) - 2) :
               /\ tokens[i].type = "CONTENT"
               /\ tokens[i].value = Render(FirstBefore(document))
               /\ tokens[i - 2].type = "BEFORE"
               /\ tokens[i + 1].type = "DIRECTIVE_START"
               /\ tokens[i + 2].type = "END_BEFORE"
               /\ tokens[i + 1].line
                      = FirstIndex(document, "end_before")
               /\ tokens[i + 1].column = 1
               /\ \A j \in (i - 1)..i :
                      tokens[j].type # "DIRECTIVE_START"

\* A CREATE whose body is a DELETE line has created the file with that line
\* in it, and the file of the DELETE line is still there
C24_Witness ==
    /\ pc = "done"
    /\ document = <<"hdr_create", "delete_a", "end_create">>
    /\ isfile(fs, <<"b">>)
    /\ fs[<<"b">>].content = PieceText("delete_a")
    /\ isfile(fs, <<"a">>)
    /\ stats.created = 1 /\ stats.deleted = 0

\* The markers that end the body a header opens, and the markers that are
\* no end of it
Foreign(header) == MarkerLines \ {EndOf(header)}

\* The document is a CREATE or an OVERWRITE_FILE in whose body, before any
\* end marker of it, stands a marker that is not its end marker
ForeignMarkerInBody(doc) ==
    /\ doc # <<>> /\ doc[1] \in BodyHeaders
    /\ \E i \in 2..Len(doc) :
         /\ doc[i] \in Foreign(doc[1])
         /\ \A j \in 2..(i - 1) : doc[j] \in ContentLines

\* The first BEFORE body of the SEARCH_AND_REPLACE document holds a marker
\* that is not END_BEFORE
ForeignMarkerInBefore(doc) ==
    /\ doc # <<>> /\ doc[1] = "hdr_sr"
    /\ \E i \in 1..Len(FirstBefore(doc)) :
         FirstBefore(doc)[i] \in MarkerLines

\* The document is a CREATE or an OVERWRITE_FILE whose body goes on to the
\* end of the text
BodyWithoutEnd(doc) ==
    /\ doc # <<>> /\ doc[1] \in BodyHeaders
    /\ \A i \in 2..Len(doc) : doc[i] \in ContentLines

\* C25: a marker inside a body that is not the end marker of that body, and
\* a body that reaches the end of the text without its end marker, make the
\* parse of the document fail with a syntax error (when the lexer has not
\* failed on it before): the run is aborted with one failure counted and no
\* directive executed
C25_ForeignMarkerFailsParse ==
    (pc # "start"
     /\ (\/ ForeignMarkerInBody(document)
         \/ ForeignMarkerInBefore(document)
         \/ BodyWithoutEnd(document))) =>
        /\ pc \in {"lexed", "aborted"}
        /\ tokens # <<>> => Parse(tokens).error = "SyntaxError"
        /\ pc = "aborted" => stats.failed = 1 /\ NothingExecuted

\* A CREATE with END_BEFORE in its body, followed by its END_CREATE, has
\* been tokenized and has failed to parse
C25_Witness ==
    /\ pc = "aborted"
    /\ document = <<"hdr_create", "text_x", "end_before", "end_create">>
    /\ tokens # <<>>
    /\ stats.failed = 1
    /\ fs = fs0

\* Line i of the SEARCH_AND_REPLACE document stands outside the BEFORE and
\* AFTER bodies: the marker before it is the header, END_BEFORE or END_AFTER
Outside(doc, i) ==
    /\ doc[i] \in ContentLines
    /\ \E j \in 1..(i - 1) :
         /\ doc[j] \in {"hdr_sr", "end_before", "end_after"}
         /\ \A m \in (j + 1)..(i - 1) : doc[m] \in ContentLines

\* C29: a line of text or a DELETE line between the header of a
\* SEARCH_AND_REPLACE and its first BEFORE, between END_BEFORE and AFTER or
\* between two blocks makes the document fail to parse: no directive of the
\* document is executed
C29_MaterialBetweenBlocksFailsParse ==
    (pc # "start" /\ document[1] = "hdr_sr"
     /\ (\E i \in 1..Len(document) : Outside(document, i))) =>
        /\ pc \in {"lexed", "aborted"}
        /\ tokens # <<>> => Parse(tokens).error # ""
        /\ NothingExecuted

\* C26: every directive the dispatcher executes changes exactly one of the
\* five counters, by + 1, and after the run the five counters sum to the
\* number of directives of the program
C26_EveryDirectiveCountedOnce ==
    /\ \A k \in Entries :
         \E c \in Counters : Delta(k, c) = 1 /\ OnlyCounted(k, {c})
    /\ pc = "done" =>
         stats.created + stats.deleted + stats.modified + stats.failed
             + stats.skipped = Len(program)

\* The directive of entry k has destroyed the content of the file q: q was
\* a file before it, and after it q is no file or holds something else; a
\* file that a MOVE has carried to its destination is not destroyed
Destroyed(k, q) ==
    /\ isfile(log[k].before.fs, q)
    /\ ~(/\ Directive(k).kind = "Move"
         /\ (q = Directive(k).source \/ IsUnder(q, Directive(k).source)))
    /\ \/ ~isfile(log[k].after.fs, q)
       \/ log[k].after.fs[q].content # log[k].before.fs[q].content

\* The directive of entry k has taken a backup of q with the content q had
BackedUp(k, q) ==
    \E i \in (Len(log[k].before.backups) + 1)..Len(log[k].after.backups) :
        log[k].after.backups[i]
            = [path |-> q, content |-> log[k].before.fs[q].content]

\* C27: with backups enabled and dry-run off, a directive that overwrites,
\* removes or replaces an existing regular file has taken a backup of the
\* content the file had, before the call that changes the filesystem
C27_NoContentLostWithoutBackup ==
    (~args.no_backup /\ ~args.dry_run) =>
        \A k \in Entries :
            \A q \in DOMAIN log[k].before.fs :
                Destroyed(k, q) =>
                    /\ BackedUp(k, q)
                    /\ \A j \in Calls(k, Mutations) :
                           \E i \in 1..(j - 1) :
                               log[k].events[i] = [op |-> "backup", path |-> q]

\* C28: the counters parse_kifdiff returns do not depend on the verbose
\* flag: a document whose tokenizing or parsing ends in an exception,
\* SyntaxError or not, returns failed = 1 and no other counter changed with
\* verbose on and with verbose off alike, so that an aborted document always
\* returns failed >= 1
C28_VerboseDoesNotChangeCounters ==
    pc = "aborted" =>
        /\ stats.failed = 1
        /\ \A c \in Counters \ {"failed"} : stats[c] = 0

\* The paths the session has backed up
BackedUpPaths == {backups[i].path : i \in 1..Len(backups)}

\* s is the beginning of t
IsPrefix(s, t) == Len(s) =< Len(t) /\ SubSeq(t, 1, Len(s)) = s

\* C30: after a session that has mutated a file one or more times with
\* backups enabled, the rollback of the session leaves the file with the
\* content it had before the first mutation of the session; and every
\* backup of the session is an entry of its own in the manifest, kept as it
\* was by the backups that come after it
C30_RollbackRestoresSessionStart ==
    /\ \A k \in 1..Len(log) :
           IsPrefix(log[k].before.backups, log[k].after.backups)
    /\ pc = "rolled_back" =>
           \A path \in BackedUpPaths :
               /\ path \in DOMAIN fs
               /\ fs[path] = fs0[path]

=============================================================================
